---- MODULE Spec2Model ----
(***************************************************************************)
(* Block and mosaic orchestration of ewoc_classif: process_blocks,         *)
(* postprocess_mosaic, run_classif, classify_block, generate_ewoc_block    *)
(* (classif.py), mosaic_blocks, generate_ewoc_products (blocks_mosaic.py), *)
(* check_outfold, update_metajsons, ingest_into_vdm (utils.py).            *)
(*                                                                         *)
(* One behaviour is one call of one driver.  The processing engine         *)
(* (run_tile), the product store and the catalog are the environment:      *)
(* every call to them picks its outcome nondeterministically.              *)
(***************************************************************************)
EXTENDS Integers, Sequences, FiniteSets, TLC

VARIABLES
    driver,         \* the function this behaviour calls
    args,           \* its arguments and the environment settings it reads
    pc,             \* position of the control flow
    outcome,        \* how the driver's call ended
    cfg,            \* content of the persisted config file
    ids_range,      \* process_blocks: the block list
    idx,            \* process_blocks: position in ids_range; notify loops: position in stac_paths
    return_codes,   \* process_blocks: one boolean per attempted block
    pb_status,      \* how the call of process_blocks ended
    pm_status,      \* how the call of postprocess_mosaic / mosaic_blocks ended
    ret,            \* generate_ewoc_block: code returned by classify_block
    use_existing_features, \* driver local of that name
    workdir,        \* out_dirpath exists on disk
    blocks_dir,     \* out_dirpath/blocks exists on disk
    features_dir,   \* out_dirpath/block_features holds at least one entry
    outfold,        \* walk of cogs/{tile}/{year}_{season} after the mosaic
    stac_paths,     \* STAC files returned by update_metajsons
    vdm_last,       \* environment and result of the latest ingest_into_vdm call
    log,            \* engine calls, uploads, deletions, rewrites, notifications, in order
    calls,          \* the calls of the function under test made so far: environment and result
    invocations,    \* two invocations of a driver side by side: position and directory of each
    disk            \* the directories and the files those two invocations share

vars == <<driver, args, pc, outcome, cfg, ids_range, idx, return_codes, pb_status,
          pm_status, ret, use_existing_features, workdir, blocks_dir, features_dir,
          outfold, stac_paths, vdm_last, log, calls, invocations, disk>>

----------------------------------------------------------------------------
(* Bounds of the model *)

\* longest explicit block_ids list
MaxBlocks == 2
\* block ids 0..MaxBlockId are the ones an explicit list names, and the ones
\* on which the engine, the store or the disk may do anything but succeed
MaxBlockId == 1
\* most STAC files a mosaic produces
MaxStac == 2
\* most files in one directory of the mosaic output
MaxFiles == 1
\* most directories under the expected mosaic output directory, itself included
MaxDirs == 2

(* Program constants *)

\* total_ids for EWOC_BLOCKSIZE 512
TotalIds512 == 483
\* total_ids for EWOC_BLOCKSIZE 1024
TotalIds1024 == 120

BlockIds == 0..MaxBlockId

\* run_tile's return codes: 0 success, 1 skip, anything else failure
EngineCodes == {-1, 0, 1, 2}

RECURSIVE SeqsUpTo(_, _)
SeqsUpTo(S, n) ==
    IF n = 0 THEN {<<>>}
    ELSE LET shorter == SeqsUpTo(S, n - 1)
         IN shorter \cup {Append(s, x) : s \in {t \in shorter : Len(t) = n - 1}, x \in S}

----------------------------------------------------------------------------
(* Call results and log entries *)

Running == [kind |-> "running", val |-> FALSE, exc |-> "none"]
Returned(v) == [kind |-> "returned", val |-> v, exc |-> "none"]
Raised(e) == [kind |-> "raised", val |-> FALSE, exc |-> e]
\* a function that ends without a return statement
ReturnedNone == Returned(TRUE)

Ev(e, b, r, t) == [ev |-> e, blk |-> b, ret |-> r, tag |-> t]



----------------------------------------------------------------------------
(* generate_config_file.  A config is the dict the function returns:       *)
(* "empty" stands for {}, "inputs" for the keys of csv_dict, "models" and  *)
(* "irrmodels" for the model names with the root their URI starts with.    *)
(* A key that a dict does not hold has the value "absent".  The model      *)
(* versions only fill in the URIs and are left out.                        *)

\* the process environment: EWOC_MODELS_DIR_ROOT ("artifactory" when unset)
\* and EWOC_DEV_MODE
ModelsRoots == {"artifactory", "local"}
Envs == [models_dir_root : ModelsRoots, dev_mode : BOOLEAN]
DefaultEnv == [models_dir_root |-> "artifactory", dev_mode |-> FALSE]

InputKeys == {"OPTICAL", "SAR", "TIR", "DEM", "METEO"}

Uri(root, name) == [name |-> name, root |-> root]

\* lines 118-128
BaseParameters(featuresettings, end_season_year, ewoc_season) ==
    [year |-> end_season_year, season |-> ewoc_season,
     featuresettings |-> featuresettings, save_features |-> FALSE,
     localmodels |-> TRUE, kernelsize |-> 3, features_dir |-> FALSE,
     use_existing_features |-> FALSE, active_marker |-> "absent",
     cropland_mask |-> "absent", irrigation |-> "absent",
     irrparameters |-> "absent", irrmodels |-> {}]

\* the dict {}
EmptyConfig ==
    [empty |-> TRUE, parameters |-> BaseParameters("none", 0, "none"),
     inputs |-> {}, models |-> {}]

Config(parameters, csv_dict, models) ==
    [empty |-> FALSE, parameters |-> parameters, inputs |-> csv_dict, models |-> models]

CfgReturned(config) == [kind |-> "returned", val |-> config, exc |-> "none"]
CfgRaised(e) == [kind |-> "raised", val |-> EmptyConfig, exc |-> e]

\* lines 147-151
cropland_mask_bucket(env) == IF env.dev_mode THEN "s3://ewoc-prd-dev" ELSE "s3://ewoc-prd"

\* variant: the irrigation model is supplied whatever no_tir_data is
IrrigationParametersAlways(p, no_tir_data, env) ==
    [p EXCEPT !.active_marker = "true",
              !.cropland_mask = cropland_mask_bucket(env),
              !.irrigation = "true",
              !.irrparameters = "irrigation",
              !.irrmodels = {Uri(env.models_dir_root, "irrigation")}]

\* lines 158-180: the irrigation keys of a croptype config
IrrigationParameters(p, no_tir_data, env) ==
    IF ~no_tir_data
    THEN [p EXCEPT !.active_marker = "true",
                   !.cropland_mask = cropland_mask_bucket(env),
                   !.irrigation = "true",
                   !.irrparameters = "irrigation",
                   !.irrmodels = {Uri(env.models_dir_root, "irrigation")}]
    ELSE [p EXCEPT !.active_marker = "true",
                   !.cropland_mask = cropland_mask_bucket(env),
                   !.irrigation = "false"]

\* variant: the extra croptype is added to summer2 as well
CroptypeModelsExtraSummer2(ewoc_season, add_croptype) ==
    IF ewoc_season = "summer1"
    THEN {"maize", "springcereals"} \cup (IF add_croptype THEN {"sunflower"} ELSE {})
    ELSE IF ewoc_season = "summer2"
    THEN {"maize"} \cup (IF add_croptype THEN {"sunflower"} ELSE {})
    ELSE IF ewoc_season = "winter"
    THEN {"wintercereals"} \cup (IF add_croptype THEN {"rapeseed"} ELSE {})
    ELSE {"unbound"}

\* lines 181-204: the croptype models of a season; "unbound" when no branch
\* assigns config
CroptypeModels(ewoc_season, add_croptype) ==
    IF ewoc_season = "summer1"
    THEN {"maize", "springcereals"} \cup (IF add_croptype THEN {"sunflower"} ELSE {})
    ELSE IF ewoc_season = "summer2"
    THEN {"maize"}
    ELSE IF ewoc_season = "winter"
    THEN {"wintercereals"} \cup (IF add_croptype THEN {"rapeseed"} ELSE {})
    ELSE {"unbound"}

\* lines 71-209
generate_config_file(featuresettings, end_season_year, ewoc_season, csv_dict, no_tir_data, use_existing, add_croptype, env) ==
    LET parameters == BaseParameters(featuresettings, end_season_year, ewoc_season) IN
    IF featuresettings = "cropland"
    THEN CfgReturned(Config(
            [parameters EXCEPT !.localmodels = FALSE, !.save_features = TRUE,
                               !.features_dir = TRUE,
                               !.use_existing_features = use_existing],
            csv_dict,
            {Uri(env.models_dir_root, "annualcropland")}))
    ELSE IF featuresettings = "croptype"
    THEN LET p == IrrigationParameters(
                     [parameters EXCEPT !.kernelsize = 7, !.save_features = TRUE,
                                        !.features_dir = TRUE,
                                        !.use_existing_features = use_existing],
                     no_tir_data, env)
             names == CroptypeModels(ewoc_season, add_croptype)
         IN  IF names = {"unbound"}
             THEN CfgRaised("UnboundLocalError")
             ELSE CfgReturned(Config(p, csv_dict,
                                     {Uri(env.models_dir_root, n) : n \in names}))
    ELSE CfgReturned(EmptyConfig)

\* no config file written yet
NoCfg == EmptyConfig

\* how many times the function under test is called in a row
Repeats == 2

\* one call of generate_config_file, in whatever environment the process has
generate_config_file_call ==
    /\ pc = "generate_config_file"
    /\ \E env \in Envs :
         LET res == generate_config_file(args.featuresettings, args.end_season_year,
                                         args.ewoc_season, args.csv_dict, args.no_tir_data,
                                         args.use_existing_features, args.add_croptype, env)
         IN  /\ calls' = Append(calls, [env |-> env, res |-> res])
             /\ cfg' = res.val
    /\ pc' = IF Len(calls) + 1 = Repeats THEN "done" ELSE pc
    /\ UNCHANGED <<invocations, disk, driver, args, outcome, ids_range, idx, return_codes, pb_status,
                   pm_status, ret, use_existing_features, workdir, blocks_dir,
                   features_dir, outfold, stac_paths, vdm_last, log>>

----------------------------------------------------------------------------
(* run_tile in block mode.  A result says whether the call raised, the     *)
(* code it returned, whether it left files under out_dirpath/blocks and    *)
(* whether it wrote feature rasters.                                       *)

BlockRunResults(block) ==
    IF block \in BlockIds
    THEN [exc : {FALSE}, ret : {0}, wrote : {TRUE}, feats : BOOLEAN]
         \cup [exc : {FALSE}, ret : EngineCodes \ {0}, wrote : BOOLEAN, feats : {FALSE}]
         \cup [exc : {TRUE}, ret : {0}, wrote : BOOLEAN, feats : {FALSE}]
    ELSE [exc : {FALSE}, ret : {0}, wrote : {TRUE}, feats : {FALSE}]

\* upload_ewoc_prd calls of one successful block, in the order of the code
BlockUploads(upload_log, feats_present, reuse) ==
    <<"blocks">>
    \o (IF upload_log THEN <<"exitlogs", "proclogs">> ELSE <<>>)
    \o (IF feats_present /\ ~reuse THEN <<"block_features">> ELSE <<>>)

\* variant: a skipped block is uploaded as well
BlockUploadedOnSkip(r, upload_block) == ~r.exc /\ r.ret \in {0, 1} /\ upload_block

\* lines 264-267: the block is uploaded
BlockUploaded(r, upload_block) == ~r.exc /\ r.ret = 0 /\ upload_block

\* which of the n uploads raises (0: none); only blocks 0..MaxBlockId fail
UploadFaults(block, n) == IF block \in BlockIds THEN 0..n ELSE {0}

\* log entries of the uploads that completed, then of the one that raised
UploadLog(block, targets, fault) ==
    [i \in 1..(IF fault = 0 THEN Len(targets) ELSE fault) |->
        Ev(IF i = fault THEN "upload_error" ELSE "upload", block, 0, targets[i])]

----------------------------------------------------------------------------
(* process_blocks *)

All(bools) == \A i \in 1..Len(bools) : bools[i]

\* variant: a range that stops one short
Range0Short(n) == [i \in 1..n |-> i - 1]

\* range(n + 1)
Range0(n) == [i \in 1..(n + 1) |-> i - 1]

\* where control goes when process_blocks ends
AfterProcessBlocks == IF driver = "process_blocks" THEN "done" ELSE "run_classif_finally"

EndProcessBlocks(st) ==
    /\ pb_status' = st
    /\ pc' = AfterProcessBlocks
    /\ outcome' = IF driver = "process_blocks" THEN st ELSE outcome

\* lines 234-243: the block list of a call without block_ids
DerivedIds(blocksize) ==
    IF blocksize = "512" THEN Range0(TotalIds512)
    ELSE IF blocksize = "1024" THEN Range0(TotalIds1024)
    ELSE <<>>

BlockSizeSupported(blocksize) == blocksize \in {"512", "1024"}

\* lines 228-250: block list, then the config file is read back
process_blocks_begin ==
    /\ pc = "process_blocks"
    /\ IF ~args.has_block_ids /\ ~BlockSizeSupported(args.blocksize)
       THEN /\ EndProcessBlocks(Returned(FALSE))
            /\ UNCHANGED <<ids_range, idx, return_codes, log>>
       ELSE IF cfg.empty
       THEN /\ EndProcessBlocks(Raised("KeyError"))
            /\ log' = Append(log, Ev("read_config", -1, 0, "KeyError"))
            /\ UNCHANGED <<ids_range, idx, return_codes>>
       ELSE /\ ids_range' = IF args.has_block_ids THEN args.block_ids
                            ELSE DerivedIds(args.blocksize)
            /\ idx' = 1
            /\ return_codes' = <<>>
            /\ log' = Append(log, Ev("read_config", -1, 0, "ok"))
            /\ pc' = "process_blocks_loop"
            /\ UNCHANGED <<pb_status, outcome>>
    /\ UNCHANGED <<invocations, disk, calls, driver, args, cfg, pm_status, ret, use_existing_features, workdir,
                   blocks_dir, features_dir, outfold, stac_paths, vdm_last>>

\* variant: a raising upload leaves no False behind
BlockCodesForgetUpload(r, uploads, fault) ==
    IF r.exc THEN <<FALSE>>
    ELSE IF r.ret \in {0, 1} THEN <<TRUE>>
    ELSE <<FALSE>>

\* the value appended to return_codes for one engine result and upload fault:
\* True is appended for code 0 before the uploads start, so a raising upload
\* leaves <<TRUE, FALSE>>
BlockCodes(r, uploads, fault) ==
    IF r.exc THEN <<FALSE>>
    ELSE IF r.ret = 0 THEN (IF uploads /\ fault # 0 THEN <<TRUE, FALSE>> ELSE <<TRUE>>)
    ELSE IF r.ret = 1 THEN <<TRUE>>
    ELSE <<FALSE>>

\* variant: the except clause without its break
BlockBreaksNever(r, uploads, fault) == FALSE

\* whether the iteration ends in the except clause (break)
BlockBreaks(r, uploads, fault) == r.exc \/ (r.ret = 0 /\ uploads /\ fault # 0)

\* variant: the loop body without its finally clause
BlockFinallyKeeps(clean, present) == present

\* the finally clause of the loop body
BlockFinally(clean, present) == IF clean THEN FALSE ELSE present

\* lines 251-304: one iteration of the loop
process_blocks_block ==
    /\ pc = "process_blocks_loop"
    /\ idx <= Len(ids_range)
    /\ LET block == ids_range[idx] IN
       \E r \in BlockRunResults(block) :
         LET feats == features_dir \/ r.feats
             targets == BlockUploads(args.upload_log, feats, cfg.parameters.use_existing_features)
             uploads == BlockUploaded(r, args.upload_block)
         IN
         \E fault \in UploadFaults(block, IF uploads THEN Len(targets) ELSE 0) :
           /\ log' = log
                \o <<Ev("run_tile", block, r.ret, IF r.exc THEN "exception" ELSE "block")>>
                \o (IF uploads THEN UploadLog(block, targets, fault) ELSE <<>>)
                \o (IF args.clean THEN <<Ev("rmtree", block, 0, "blocks")>> ELSE <<>>)
           /\ return_codes' = return_codes \o BlockCodes(r, uploads, fault)
           /\ blocks_dir' = BlockFinally(args.clean, blocks_dir \/ r.wrote)
           /\ features_dir' = feats
           /\ idx' = idx + 1
           /\ pc' = IF BlockBreaks(r, uploads, fault) THEN "process_blocks_end"
                    ELSE "process_blocks_loop"
    /\ UNCHANGED <<invocations, disk, calls, driver, args, outcome, cfg, ids_range, pb_status, pm_status, ret,
                   use_existing_features, workdir, outfold, stac_paths, vdm_last>>

\* variant: the whole-tile branch ends in the final return
ProcessBlocksVerdictWholeTile(codes, has_block_ids) ==
    IF ~All(codes) THEN Returned(FALSE) ELSE Returned(TRUE)

\* the verdict of lines 306-343
ProcessBlocksVerdict(codes, has_block_ids) ==
    IF ~All(codes) THEN Returned(FALSE)
    ELSE IF ~has_block_ids THEN Raised("NotImplementedError")
    ELSE Returned(TRUE)

\* lines 306-343: after the loop
process_blocks_end ==
    /\ \/ pc = "process_blocks_end"
       \/ pc = "process_blocks_loop" /\ idx > Len(ids_range)
    /\ EndProcessBlocks(ProcessBlocksVerdict(return_codes, args.has_block_ids))
    /\ UNCHANGED <<invocations, disk, calls, driver, args, cfg, ids_range, idx, return_codes, pm_status, ret,
                   use_existing_features, workdir, blocks_dir, features_dir, outfold,
                   stac_paths, vdm_last, log>>

----------------------------------------------------------------------------
(* utils.py: check_outfold, update_metajsons, ingest_into_vdm *)

\* os.walk of a directory: the number of files of every directory visited,
\* the empty sequence for a directory that does not exist
Walks == SeqsUpTo(0..MaxFiles, MaxDirs)

RECURSIVE SumSeq(_)
SumSeq(s) == IF s = <<>> THEN 0 ELSE Head(s) + SumSeq(Tail(s))

Min(a, b) == IF a < b THEN a ELSE b

\* variant: the directory only has to exist
check_outfold_exists(walk) == Len(walk) > 0

\* lines 211-225
check_outfold(walk) ==
    IF Len(walk) > 0
    THEN \E i \in 1..Len(walk) : walk[i] > 0
    ELSE FALSE

\* lines 247-283, reduced to the files found: every match is rewritten and returned
update_metajsons(n_matching) == [i \in 1..n_matching |-> i]

\* what one notification meets: the STAC file, the two settings, the JSON
\* content and the HTTP exchange
VdmOk == [isfile |-> TRUE, host |-> TRUE, auth |-> TRUE, json |-> TRUE, net |-> "200"]

VdmNets == {"200", "201", "http_error", "connect_timeout", "read_timeout", "connection_error"}

\* all is well, or exactly one thing is wrong
VdmEnvs ==
    {[VdmOk EXCEPT !.isfile = FALSE], [VdmOk EXCEPT !.host = FALSE],
     [VdmOk EXCEPT !.auth = FALSE], [VdmOk EXCEPT !.json = FALSE]}
    \cup {[VdmOk EXCEPT !.net = n] : n \in VdmNets}

NoVdm == [called |-> FALSE, env |-> VdmOk, res |-> Running]

\* the handler "except Exception as x" formats resp.status_code: resp is bound
\* only once requests.post has returned
VdmGenericHandler(resp_bound) ==
    IF resp_bound THEN Returned(FALSE) ELSE Raised("UnboundLocalError")

\* lines 314-347
ingest_into_vdm(e) ==
    IF ~e.isfile THEN Returned(FALSE)
    ELSE IF ~e.host THEN Returned(FALSE)
    ELSE IF ~e.auth THEN Returned(FALSE)
    ELSE IF ~e.json THEN VdmGenericHandler(FALSE)
    ELSE IF e.net = "connect_timeout" THEN Returned(FALSE)
    ELSE IF e.net = "read_timeout" THEN Returned(FALSE)
    ELSE IF e.net = "connection_error" THEN VdmGenericHandler(FALSE)
    ELSE IF e.net = "http_error" THEN VdmGenericHandler(TRUE)
    ELSE Returned(e.net = "200")

----------------------------------------------------------------------------
(* run_tile in mosaic mode, with the calls made just before it.  A result  *)
(* names the call that raised (or "none"), the code returned, the walk of  *)
(* the expected output directory and the number of STAC files under cogs.  *)

MosaicRunResults ==
    [exc : {"get_blocks", "symlink", "run_tile"}, ret : {0}, walk : {<<>>}, stacs : {0}]
    \cup {m \in [exc : {"none"}, ret : EngineCodes, walk : Walks, stacs : 0..MaxStac] :
            m.stacs <= SumSeq(m.walk)}

----------------------------------------------------------------------------
(* postprocess_mosaic *)

AfterMosaic == IF driver = "postprocess_mosaic" THEN "done" ELSE "run_classif_finally"

EndMosaic(st) ==
    /\ pm_status' = st
    /\ pc' = AfterMosaic
    /\ outcome' = IF driver = "postprocess_mosaic" THEN st ELSE outcome

\* lines 367-389: config read back, get_blocks, symlink, run_tile
postprocess_mosaic_run ==
    /\ pc = "postprocess_mosaic"
    /\ IF cfg.empty
       THEN /\ EndMosaic(Raised("KeyError"))
            /\ log' = Append(log, Ev("read_config", -1, 0, "KeyError"))
            /\ UNCHANGED <<outfold, stac_paths>>
       ELSE \E m \in MosaicRunResults :
            IF m.exc \in {"get_blocks", "symlink"}
            THEN /\ EndMosaic(Raised(m.exc))
                 /\ log' = Append(log, Ev("read_config", -1, 0, "ok"))
                 /\ UNCHANGED <<outfold, stac_paths>>
            ELSE IF m.exc = "run_tile"
            THEN /\ EndMosaic(Raised(m.exc))
                 /\ log' = log \o <<Ev("read_config", -1, 0, "ok"),
                                    Ev("run_tile", -1, 0, "mosaic_exception")>>
                 /\ UNCHANGED <<outfold, stac_paths>>
            ELSE /\ log' = log \o <<Ev("read_config", -1, 0, "ok"),
                                    Ev("run_tile", -1, m.ret, "mosaic")>>
                 /\ outfold' = m.walk
                 /\ stac_paths' = [i \in 1..m.stacs |-> i]
                 /\ pc' = "postprocess_mosaic_publish"
                 /\ UNCHANGED <<pm_status, outcome>>
    /\ UNCHANGED <<invocations, disk, calls, driver, args, cfg, ids_range, idx, return_codes, pb_status, ret,
                   use_existing_features, workdir, blocks_dir, features_dir, vdm_last>>

RewriteLog(paths) == [i \in 1..Len(paths) |-> Ev("rewrite", paths[i], 0, "stac")]

\* variant: the tree is uploaded before the STAC files are rewritten
PublishLogUploadFirst(paths, uploaded) == uploaded \o RewriteLog(paths)

\* lines 393-400 (blocks_mosaic.py lines 274-288): update_metajsons, then
\* upload_ewoc_prd
PublishLog(paths, uploaded) == RewriteLog(paths) \o uploaded

\* lines 391-404 and 414-415: the output check, the STAC rewrite, the upload
postprocess_mosaic_publish ==
    /\ pc = "postprocess_mosaic_publish"
    /\ IF check_outfold(outfold)
       THEN LET paths == update_metajsons(Len(stac_paths)) IN
            \E fault \in BOOLEAN :
              IF fault
              THEN /\ EndMosaic(Raised("UploadProductError"))
                   /\ log' = log \o PublishLog(paths, <<Ev("upload_error", -1, 0, "cogs")>>)
                   /\ UNCHANGED idx
              ELSE /\ log' = log \o PublishLog(paths, <<Ev("upload", -1, 0, "cogs")>>)
                   /\ idx' = 1
                   /\ IF paths = <<>>
                      THEN EndMosaic(ReturnedNone)
                      ELSE /\ pc' = "postprocess_mosaic_notify"
                           /\ UNCHANGED <<pm_status, outcome>>
       ELSE /\ EndMosaic(Raised("Exception"))
            /\ UNCHANGED <<idx, log>>
    /\ UNCHANGED <<invocations, disk, calls, driver, args, cfg, ids_range, return_codes, pb_status, ret,
                   use_existing_features, workdir, blocks_dir, features_dir, outfold,
                   stac_paths, vdm_last>>

\* lines 407-411: one iteration of the notification loop
postprocess_mosaic_notify ==
    /\ pc = "postprocess_mosaic_notify"
    /\ idx <= Len(stac_paths)
    /\ \E e \in VdmEnvs :
         LET res == ingest_into_vdm(e) IN
         /\ vdm_last' = [called |-> TRUE, env |-> e, res |-> res]
         /\ IF res.kind = "raised"
            THEN /\ EndMosaic(res)
                 /\ UNCHANGED <<idx, log>>
            ELSE /\ log' = Append(log, Ev("notify", stac_paths[idx], 0,
                                          IF res.val THEN "ok" ELSE "failed"))
                 /\ idx' = idx + 1
                 /\ IF idx = Len(stac_paths)
                    THEN EndMosaic(ReturnedNone)
                    ELSE UNCHANGED <<pc, pm_status, outcome>>
    /\ UNCHANGED <<invocations, disk, calls, driver, args, cfg, ids_range, return_codes, pb_status, ret,
                   use_existing_features, workdir, blocks_dir, features_dir, outfold,
                   stac_paths>>

----------------------------------------------------------------------------
(* The AEZ id of a production id: int(production_id.split('_')[-2]).       *)
(* A production id is a sequence of characters.                            *)

\* longest production id
MaxIdLen == 5

IdChars == {"_", "-", "4", "7", "x"}
Digits == {"4", "7"}

DigitValue(c) == IF c = "4" THEN 4 ELSE 7

\* str.split('_')
RECURSIVE split(_)
split(s) ==
    IF \A i \in 1..Len(s) : s[i] # "_"
    THEN <<s>>
    ELSE LET i == CHOOSE k \in 1..Len(s) : s[k] = "_" /\ \A j \in 1..(k - 1) : s[j] # "_"
         IN  <<SubSeq(s, 1, i - 1)>> \o split(SubSeq(s, i + 1, Len(s)))

IsDigits(t) == Len(t) > 0 /\ \A i \in 1..Len(t) : t[i] \in Digits

RECURSIVE DigitsValue(_)
DigitsValue(t) ==
    IF t = <<>> THEN 0
    ELSE 10 * DigitsValue(SubSeq(t, 1, Len(t) - 1)) + DigitValue(t[Len(t)])

IntReturned(n) == [kind |-> "returned", val |-> n, exc |-> "none"]
IntRaised(e) == [kind |-> "raised", val |-> 0, exc |-> e]

\* int(): decimal digits after an optional sign
int(t) ==
    IF IsDigits(t) THEN IntReturned(DigitsValue(t))
    ELSE IF Len(t) > 1 /\ t[1] = "-" /\ IsDigits(Tail(t))
    THEN IntReturned(0 - DigitsValue(Tail(t)))
    ELSE IntRaised("ValueError")

\* classif.py lines 507 and 805, blocks_mosaic.py line 190
aez_id(production_id) ==
    LET tokens == split(production_id) IN
    IF Len(tokens) < 2 THEN IntRaised("IndexError")
    ELSE int(tokens[Len(tokens) - 1])

\* one evaluation of the AEZ id
aez_id_call ==
    /\ pc = "aez_id"
    /\ calls' = Append(calls, [env |-> DefaultEnv, res |-> aez_id(args.production_id)])
    /\ pc' = "done"
    /\ UNCHANGED <<invocations, disk, driver, args, outcome, cfg, ids_range, idx, return_codes, pb_status,
                   pm_status, ret, use_existing_features, workdir, blocks_dir,
                   features_dir, outfold, stac_paths, vdm_last, log>>

----------------------------------------------------------------------------
(* check_collection, classif.py lines 116-191.  A collection is the        *)
(* sequence of the products over the block (after filter_bounds), each     *)
(* with its date in days and, for TIR, whether filter_nodata drops it.     *)
(* block is a non-empty list of blocks of the tile.                        *)

\* most products in a collection
MaxColl == 3

\* the default of min_size
DefaultMinSize == 2

Dates == 0..5
CollectionNames == {"SAR", "TIR"}
Product(date, nodata) == [date |-> date, nodata |-> nodata]

\* a number of days, nan when it comes from an empty or one-row frame
Num(v) == [nan |-> FALSE, v |-> v]
NaN == [nan |-> TRUE, v |-> 0]

\* max(x, 0): x is kept unless 0 > x, which is false for nan
MaxZero(x) == IF ~x.nan /\ 0 > x.v THEN Num(0) ELSE x

\* x > threshold: false for nan
Gt(x, threshold) == ~x.nan /\ x.v > threshold

\* lines 143-144: collstart <= date < collend
InWindowInclusive(date, collstart, collend) == date >= collstart /\ date <= collend
InWindow(date, collstart, collend) == date >= collstart /\ date < collend

\* collection.df.date.min() and .max(): NaT on an empty frame
DateMin(df) ==
    IF df = <<>> THEN NaN
    ELSE Num(CHOOSE d \in {df[i].date : i \in 1..Len(df)} :
                 \A i \in 1..Len(df) : d <= df[i].date)
DateMax(df) ==
    IF df = <<>> THEN NaN
    ELSE Num(CHOOSE d \in {df[i].date : i \in 1..Len(df)} :
                 \A i \in 1..Len(df) : d >= df[i].date)

\* a - b in days: nan if either is NaT
DaysBetween(a, b) == IF a.nan \/ b.nan THEN NaN ELSE Num(a.v - b.v)

\* diff().max().days: the largest difference between a row and the row
\* before it, nan when there are fewer than two rows
DiffMax(df) ==
    IF Len(df) < 2 THEN NaN
    ELSE LET diffs == {df[i].date - df[i - 1].date : i \in 2..Len(df)}
         IN  Num(CHOOSE d \in diffs : \A e \in diffs : d >= e)

check_collection(collection, name, start_date, end_date, fail_threshold, min_size) ==
    LET collstart == start_date - 1
        collend == end_date + 1
        windowed == SelectSeq(collection, LAMBDA p : InWindow(p.date, collstart, collend))
        df == IF name = "TIR"
              THEN SelectSeq(windowed, LAMBDA p : ~p.nodata)
              ELSE windowed
        collsize == Len(df)
        gapstart == MaxZero(DaysBetween(DateMin(df), Num(start_date)))
        gapend == MaxZero(DaysBetween(Num(end_date), DateMax(df)))
        maxgap == DiffMax(df)
    IN  Returned(\/ collsize < min_size
                 \/ Gt(gapstart, fail_threshold)
                 \/ Gt(gapend, fail_threshold)
                 \/ Gt(maxgap, fail_threshold))

\* one evaluation of check_collection
check_collection_call ==
    /\ pc = "check_collection"
    /\ calls' = Append(calls,
                  [env |-> DefaultEnv,
                   res |-> check_collection(args.collection, args.name, args.start_date,
                                            args.end_date, args.fail_threshold,
                                            DefaultMinSize)])
    /\ pc' = "done"
    /\ UNCHANGED <<invocations, disk, driver, args, outcome, cfg, ids_range, idx, return_codes, pb_status,
                   pm_status, ret, use_existing_features, workdir, blocks_dir,
                   features_dir, outfold, stac_paths, vdm_last, log>>

----------------------------------------------------------------------------
(* download_features, classif.py lines 53-114.  exists: the feature        *)
(* artifacts of the block that _check_product_file finds in the product    *)
(* store.                                                                  *)

Artifacts == {"features_cropland", "features_croptype", "features_irrigation"}

\* lines 84-87 and 102
MainArtifact(ewoc_season) ==
    IF ewoc_season = "annual" THEN "features_cropland" ELSE "features_croptype"

\* line 114
FeaturesCheckEither(check_product, check_product_irr) == check_product \/ check_product_irr
FeaturesCheck(check_product, check_product_irr) == check_product /\ check_product_irr

download_features(ewoc_season, exists) ==
    LET check_product_irr == IF ewoc_season = "annual" THEN TRUE
                             ELSE "features_irrigation" \in exists
        irr_downloaded == IF ewoc_season # "annual" /\ check_product_irr
                          THEN {"features_irrigation"} ELSE {}
        check_product == MainArtifact(ewoc_season) \in exists
        downloaded == IF check_product THEN {MainArtifact(ewoc_season)} ELSE {}
    IN  [kind |-> "returned",
         val |-> FeaturesCheck(check_product, check_product_irr),
         exc |-> "none",
         downloaded |-> irr_downloaded \cup downloaded]

\* one call of download_features; the product store is the same at every call
download_features_call ==
    /\ pc = "download_features"
    /\ calls' = Append(calls, [env |-> DefaultEnv,
                               res |-> download_features(args.ewoc_season, args.exists)])
    /\ pc' = IF Len(calls) + 1 = Repeats THEN "done" ELSE "download_features"
    /\ UNCHANGED <<invocations, disk, driver, args, outcome, cfg, ids_range, idx, return_codes, pb_status,
                   pm_status, ret, use_existing_features, workdir, blocks_dir,
                   features_dir, outfold, stac_paths, vdm_last, log>>

\* the artifacts of a block in a product store where the blocks of have hold
\* the main features of the season and the blocks of irr the irrigation ones
Store(ewoc_season, have, irr, block) ==
    (IF block \in have THEN {MainArtifact(ewoc_season)} ELSE {})
        \cup (IF block \in irr THEN {"features_irrigation"} ELSE {})

----------------------------------------------------------------------------
(* utils.py update_metajsons on the files themselves.  A string the code   *)
(* splits is the sequence of its pieces: an identifier is its tokens       *)
(* between "_", a path or an href is its segments between "/" (each one an *)
(* identifier), a file name is its pieces around "metadata_" and the       *)
(* extension.                                                              *)

Seg(s) == <<s>>

\* "_".join(tokens): no token gives the empty string
join(tokens) == IF tokens = <<>> THEN <<"">> ELSE tokens

\* a pathlib path: absolute or relative to the current directory
Path(absolute, dirs, name) == [absolute |-> absolute, dirs |-> dirs, name |-> name]

\* str(out_dir_folder), segment by segment: an absolute path starts with "/"
Str(path) == (IF path.absolute THEN <<Seg("")>> ELSE <<>>) \o path.dirs

\* pathlib a / b: an absolute b replaces a
PathJoin(a, b) ==
    IF b.absolute THEN b ELSE Path(a.absolute, a.dirs \o b.dirs, b.name)

StartsWith(s, old) == Len(s) >= Len(old) /\ SubSeq(s, 1, Len(old)) = old

\* str.replace(old, new): every occurrence, left to right
RECURSIVE replace(_, _, _)
replace(s, old, new) ==
    IF s = <<>> THEN <<>>
    ELSE IF StartsWith(s, old)
    THEN new \o replace(SubSeq(s, Len(old) + 1, Len(s)), old, new)
    ELSE <<Head(s)>> \o replace(Tail(s), old, new)

\* fnmatch of a file name against "*metadata_*.json"
fnmatch(name) ==
    \E i \in 1..Len(name) :
        name[i] = "metadata_" /\ i < Len(name) /\ name[Len(name)] = ".json"

\* classif.py line 395, blocks_mosaic.py line 273: f"s3://ewoc-prd/{production_id}"
root_s3(production_id) == <<Seg("s3:"), Seg(""), Seg("ewoc-prd"), production_id>>

\* lines 238-246
user_id(root_path) ==
    LET user_id_tmp == IF root_path[Len(root_path)] = Seg("")
                       THEN root_path[Len(root_path) - 1]
                       ELSE root_path[Len(root_path)]
        user_id_tmp2 == SubSeq(user_id_tmp, 1, Len(user_id_tmp) - 2)
    IN IF Len(user_id_tmp2) = 1 THEN <<user_id_tmp2[1]>> ELSE join(user_id_tmp2)

\* lines 253-274: the content of one file, rewritten
update_data(data, root_path, out_dir_folder) ==
    LET old == Str(out_dir_folder)
        tcid == data.tile_collection_id
    IN [links |-> [k \in 1..Len(data.links) |->
                      IF data.links[k].rel = "self"
                      THEN [rel |-> "self",
                            href |-> replace(data.links[k].href, old, root_path)]
                      ELSE data.links[k]],
        assets |-> [k \in 1..Len(data.assets) |->
                      replace(data.assets[k], old, root_path)],
        public |-> IF data.public = "false" THEN "true" ELSE data.public,
        users |-> IF data.users = <<Seg("0000")>>
                  THEN <<user_id(root_path)>> ELSE data.users,
        tile_collection_id |->
            IF tcid[Len(tcid)] = "0000"
            THEN join(SubSeq(tcid, 1, Len(tcid) - 1)) \o user_id(root_path)
            ELSE tcid]

\* line 248: out_dir_folder.rglob("*metadata_*.json"), in the order of the tree
RECURSIVE rglob(_)
rglob(tree) ==
    IF tree = <<>> THEN <<>>
    ELSE (IF fnmatch(Head(tree).path.name) THEN <<Head(tree).path>> ELSE <<>>)
            \o rglob(Tail(tree))

\* lines 228-283.  open(out_dir_folder / meta) raises FileNotFoundError when
\* no file has that path; the files before it in the list are rewritten
update_metajsons_tree(root_path, out_dir_folder, tree) ==
    LET metajsons == rglob(tree)
        opened(j) == PathJoin(out_dir_folder, metajsons[j])
        Exists(p) == \E i \in 1..Len(tree) : tree[i].path = p
        missing == {j \in 1..Len(metajsons) : ~Exists(opened(j))}
        done(j) == \A k \in missing : j < k
    IN [kind |-> IF missing = {} THEN "return" ELSE "raise",
        val |-> IF missing = {} THEN metajsons ELSE <<>>,
        exc |-> IF missing = {} THEN "" ELSE "FileNotFoundError",
        tree |-> [i \in 1..Len(tree) |->
                    IF \E j \in 1..Len(metajsons) : done(j) /\ opened(j) = tree[i].path
                    THEN [path |-> tree[i].path,
                          data |-> update_data(tree[i].data, root_path, out_dir_folder)]
                    ELSE tree[i]]]

\* the tree a call meets: the one of the caller, then the one the call before left
TreeNow == IF calls = <<>> THEN args.tree ELSE calls[Len(calls)].res.tree

\* one call of update_metajsons, as postprocess_mosaic makes it
update_metajsons_call ==
    /\ pc = "update_metajsons"
    /\ calls' = Append(calls,
                   [env |-> DefaultEnv,
                    res |-> update_metajsons_tree(root_s3(args.production_id),
                                                  args.out_dir_folder, TreeNow)])
    /\ pc' = IF Len(calls) + 1 = Repeats THEN "done" ELSE "update_metajsons"
    /\ UNCHANGED <<invocations, disk, driver, args, outcome, cfg, ids_range, idx, return_codes, pb_status,
                   pm_status, ret, use_existing_features, workdir, blocks_dir,
                   features_dir, outfold, stac_paths, vdm_last, log>>

\* the output directories: out_dirpath / "cogs", absolute or as typed on the
\* command line
OutDirs == {Path(TRUE, <<Seg("tmp"), Seg("cogs")>>, <<>>),
            Path(FALSE, <<Seg("out"), Seg("cogs")>>, <<>>)}

\* the production ids: {owner}_{aez}_{timestamp}
MetaProductionIds == {<<"0000", "6", "t">>, <<"u1", "6", "t">>,
                      <<"u1", "org", "6", "t">>, <<"u1", "0000", "6", "t">>}

LocalHref(out) == Str(out) \o <<Seg("f")>>
RemoteHref == <<Seg("s3:"), Seg(""), Seg("old"), Seg("f")>>

\* the content of a STAC file as the engine writes it, one already final,
\* and one in between
MetaData(out) ==
    {[links |-> <<[rel |-> "self", href |-> LocalHref(out)],
                  [rel |-> "parent", href |-> LocalHref(out)]>>,
      assets |-> <<LocalHref(out), LocalHref(out)>>,
      public |-> "false", users |-> <<Seg("0000")>>,
      tile_collection_id |-> <<"coll", "0000">>],
     [links |-> <<[rel |-> "parent", href |-> LocalHref(out)],
                  [rel |-> "self", href |-> RemoteHref]>>,
      assets |-> <<RemoteHref>>,
      public |-> "true", users |-> <<Seg("u9")>>,
      tile_collection_id |-> <<"coll", "u9">>],
     [links |-> <<[rel |-> "self", href |-> LocalHref(out)]>>,
      assets |-> <<LocalHref(out), RemoteHref>>,
      public |-> "true", users |-> <<Seg("0000"), Seg("u9")>>,
      tile_collection_id |-> <<"0000", "coll">>]}

MetaNames == {<<"S2", "metadata_", "x", ".json">>, <<"metadata_", ".json">>,
              <<"S2", "metadata", ".json">>, <<"S2", "metadata_", "x", ".tif">>}

\* the trees under out: the file number i is in its own sub-directory
SubDirs == <<"a", "b", "c", "d">>

Trees(out) ==
    LET contents == SeqsUpTo(MetaNames \X MetaData(out), MaxStac)
    IN {[i \in 1..Len(c) |->
            [path |-> Path(out.absolute, out.dirs \o <<Seg(SubDirs[i])>>, c[i][1]),
             data |-> c[i][2]]] : c \in contents}

----------------------------------------------------------------------------
(* The SAR and TIR indexes of a driver.  An index is the CSV of the        *)
(* products of the tile: given (the caller passed the file) or written by  *)
(* the driver from the ARD bucket, with one row per product.               *)

\* get_processing_dates, in days
SeasonStart == 1
SeasonEnd == 3
\* get_coll_maxgap, in days
CollMaxGap == 2

Index(given, rows) == [given |-> given, rows |-> rows]

\* lines 531-536 (and 834-839): a given index of at most one row
CsvShort(csv) == csv.given /\ Len(csv.rows) <= 1

\* variant: a check that looks at the gaps only
CollectionDegradedGapsOnly(csv, name) ==
    check_collection(csv.rows, name, SeasonStart, SeasonEnd, CollMaxGap, 0).val

\* the flag of lines 531-536 is assigned again by check_collection at lines
\* 565-569 (and 842-866), on the collection read from the same index
CollectionDegraded(csv, name) ==
    check_collection(csv.rows, name, SeasonStart, SeasonEnd, CollMaxGap, DefaultMinSize).val

----------------------------------------------------------------------------
(* run_classif *)

\* lines 514-526: check_features keeps the answer for the last block only
\* lines 92-100 and 104-110: the downloads of one call, in the order of the code
DownloadEvents(block, downloaded) ==
    (IF "features_irrigation" \in downloaded
     THEN <<Ev("download", block, 0, "features_irrigation")>> ELSE <<>>)
    \o (IF "features_cropland" \in downloaded
        THEN <<Ev("download", block, 0, "features_cropland")>> ELSE <<>>)
    \o (IF "features_croptype" \in downloaded
        THEN <<Ev("download", block, 0, "features_croptype")>> ELSE <<>>)

\* lines 514-526: the downloads of the loop over the requested blocks
RECURSIVE DownloadLog(_, _, _, _)
DownloadLog(ids, ewoc_season, have, irr) ==
    IF ids = <<>> THEN <<>>
    ELSE DownloadEvents(ids[1],
             download_features(ewoc_season, Store(ewoc_season, have, irr, ids[1])).downloaded)
         \o DownloadLog(Tail(ids), ewoc_season, have, irr)

LastCheck(ids, ewoc_season, have, irr) ==
    download_features(ewoc_season, Store(ewoc_season, have, irr, ids[Len(ids)])).val


\* variant: only the SAR reference is ever left out
CsvDictKeepsTir(no_sar, no_tir) == InputKeys \ (IF no_sar THEN {"SAR"} ELSE {})

\* lines 571-600 (and 873-902): the inputs mapping for the degraded collections
CsvDict(no_sar, no_tir) ==
    (InputKeys \ (IF no_sar THEN {"SAR"} ELSE {})) \ (IF no_tir THEN {"TIR"} ELSE {})

\* lines 556-558
AddCroptype(end_season_year) == end_season_year = 2022

\* lines 602-621: the config is built and written, unless the builder raised
RunClassifConfigured(res, reuse, downloads) ==
    /\ use_existing_features' = reuse
    /\ features_dir' = (features_dir \/ downloads # <<>>)
    /\ log' = log \o downloads
    /\ IF res.kind = "raised"
       THEN /\ outcome' = Raised(res.exc)
            /\ pc' = "done"
            /\ UNCHANGED cfg
       ELSE /\ cfg' = res.val
            /\ pc' = IF args.postprocess THEN "postprocess_mosaic" ELSE "process_blocks"
            /\ UNCHANGED outcome

\* lines 495-621: working directory, feature reuse, config file
run_classif_prepare ==
    /\ pc = "run_classif"
    /\ workdir' = TRUE
    /\ IF args.use_existing_features /\ args.has_block_ids
       THEN IF args.block_ids = <<>>
            THEN /\ outcome' = Raised("UnboundLocalError")
                 /\ pc' = "done"
                 /\ UNCHANGED <<cfg, use_existing_features, features_dir, log>>
            ELSE \E have \in SUBSET BlockIds, irr \in SUBSET BlockIds :
                 LET check_features ==
                         LastCheck(args.block_ids, args.ewoc_season, have, irr)
                 IN  RunClassifConfigured(
                         generate_config_file(args.ewoc_detector, args.end_season_year,
                                              args.ewoc_season, {}, FALSE,
                                              check_features, FALSE, args.env),
                         check_features,
                         DownloadLog(args.block_ids, args.ewoc_season, have, irr))
       ELSE IF ~args.has_block_ids \/ args.block_ids = <<>>
            \* check_collection indexes the block list: None and [] raise
            THEN /\ outcome' = Raised(IF args.has_block_ids THEN "IndexError" ELSE "TypeError")
                 /\ pc' = "done"
                 /\ UNCHANGED <<cfg, use_existing_features, features_dir, log>>
            ELSE RunClassifConfigured(
                     generate_config_file(args.ewoc_detector, args.end_season_year,
                                          args.ewoc_season,
                                          CsvDict(CollectionDegraded(args.sar_csv, "SAR"),
                                                  CollectionDegraded(args.tir_csv, "TIR")),
                                          CollectionDegraded(args.tir_csv, "TIR"),
                                          args.use_existing_features,
                                          AddCroptype(args.end_season_year), args.env),
                     args.use_existing_features, <<>>)
    /\ UNCHANGED <<invocations, disk, calls, driver, args, ids_range, idx, return_codes, pb_status, pm_status, ret,
                   blocks_dir, outfold, stac_paths, vdm_last>>

\* whether the try block of lines 623-642 ends in an exception
StageFailed(post, pb, pm) ==
    IF post THEN pm.kind = "raised"
    ELSE pb.kind = "raised" \/ (pb.kind = "returned" /\ ~pb.val)

\* lines 643-645: the except clause logs and does not raise again
run_classif_except(failed) == ReturnedNone

\* variant: cleanup placed after the stage instead of in a finally clause
run_classif_clean_on_success(clean, failed, present) ==
    IF clean /\ ~failed THEN FALSE ELSE present

\* lines 646-650: the finally clause
run_classif_clean(clean, failed, present) == IF clean THEN FALSE ELSE present

\* lines 637-650: the verdict on the stage, the except and finally clauses
run_classif_finally ==
    /\ pc = "run_classif_finally"
    /\ LET failed == StageFailed(args.postprocess, pb_status, pm_status) IN
       /\ outcome' = run_classif_except(failed)
       /\ log' = log
            \o (IF failed THEN <<Ev("log_error", -1, 0, "Processing failed")>> ELSE <<>>)
            \o (IF run_classif_clean(args.clean, failed, TRUE) THEN <<>>
                ELSE <<Ev("rmtree", -1, 0, "out_dirpath")>>)
       /\ workdir' = run_classif_clean(args.clean, failed, workdir)
       /\ blocks_dir' = run_classif_clean(args.clean, failed, blocks_dir)
       /\ features_dir' = run_classif_clean(args.clean, failed, features_dir)
    /\ pc' = "done"
    /\ UNCHANGED <<invocations, disk, calls, driver, args, cfg, ids_range, idx, return_codes, pb_status, pm_status,
                   ret, use_existing_features, outfold, stac_paths, vdm_last>>

----------------------------------------------------------------------------
(* classify_block and generate_ewoc_block *)

\* lines 687-716: an exception of run_tile becomes code 2
classify_block(r) == IF r.exc THEN 2 ELSE r.ret

\* lines 902-904
BlockAddCroptype(end_season_year, croptype_model_version) ==
    end_season_year = 2022 /\ croptype_model_version = "v720"

\* lines 795-926: working directory, feature reuse, config file
generate_ewoc_block_prepare ==
    /\ pc = "generate_ewoc_block"
    /\ workdir' = TRUE
    /\ \E exists \in SUBSET Artifacts :
         LET features == download_features(args.ewoc_season, exists)
             reuse == IF args.ignore_existing_features THEN FALSE ELSE features.val
             no_sar == ~reuse /\ CollectionDegraded(args.sar_csv, "SAR")
             no_tir == ~reuse /\ CollectionDegraded(args.tir_csv, "TIR")
             res == generate_config_file(
                        args.ewoc_detector, args.end_season_year, args.ewoc_season,
                        IF reuse THEN {} ELSE CsvDict(no_sar, no_tir),
                        no_tir, reuse, BlockAddCroptype(args.end_season_year, args.croptype_model_version),
                        args.env)
         IN /\ use_existing_features' = reuse
            /\ features_dir' = (~args.ignore_existing_features /\ features.downloaded # {})
            /\ log' = log \o (IF args.ignore_existing_features THEN <<>>
                               ELSE DownloadEvents(args.block_ids[1], features.downloaded))
            /\ IF res.kind = "raised"
               THEN /\ outcome' = Raised(res.exc)
                    /\ pc' = "done"
                    /\ UNCHANGED cfg
               ELSE /\ cfg' = res.val
                    /\ pc' = "generate_ewoc_block_classify"
                    /\ UNCHANGED outcome
    /\ UNCHANGED <<invocations, disk, calls, driver, args, ids_range, idx, return_codes, pb_status,
                   pm_status, ret, blocks_dir, outfold, stac_paths, vdm_last>>

\* line 936
BlockFailed(code) == code > 1

\* lines 929-937: classify_block and the verdict on its code
generate_ewoc_block_classify ==
    /\ pc = "generate_ewoc_block_classify"
    /\ IF cfg.empty
       THEN /\ outcome' = Raised("KeyError")
            /\ pc' = "done"
            /\ log' = Append(log, Ev("read_config", -1, 0, "KeyError"))
            /\ UNCHANGED <<ret, blocks_dir, features_dir>>
       ELSE LET block == args.block_ids[1] IN
            \E r \in BlockRunResults(block) :
              LET code == classify_block(r) IN
              /\ ret' = code
              /\ log' = log \o <<Ev("read_config", -1, 0, "ok"),
                                 Ev("run_tile", block, r.ret,
                                    IF r.exc THEN "exception" ELSE "block")>>
              /\ blocks_dir' = (blocks_dir \/ r.wrote)
              /\ features_dir' = (features_dir \/ r.feats)
              /\ IF BlockFailed(code)
                 THEN /\ outcome' = Raised("RuntimeError")
                      /\ pc' = "done"
                 ELSE /\ pc' = "generate_ewoc_block_finish"
                      /\ UNCHANGED outcome
    /\ UNCHANGED <<invocations, disk, calls, driver, args, cfg, ids_range, idx, return_codes, pb_status, pm_status,
                   use_existing_features, workdir, outfold, stac_paths, vdm_last>>

\* lines 974-977
generate_ewoc_block_clean(clean, present) == IF clean THEN FALSE ELSE present

\* lines 939-977: the uploads, then the cleaning
generate_ewoc_block_finish ==
    /\ pc = "generate_ewoc_block_finish"
    /\ LET block == args.block_ids[1]
           targets == BlockUploads(args.upload_log, features_dir, use_existing_features)
           uploads == ret # 1 /\ args.upload_block
       IN
       \E fault \in UploadFaults(block, IF uploads THEN Len(targets) ELSE 0) :
         IF fault # 0
         THEN /\ log' = log \o UploadLog(block, targets, fault)
              /\ outcome' = Raised("RuntimeError")
              /\ UNCHANGED <<workdir, blocks_dir, features_dir>>
         ELSE /\ log' = log
                   \o (IF uploads THEN UploadLog(block, targets, 0) ELSE <<>>)
                   \o (IF args.clean THEN <<Ev("rmtree", -1, 0, "out_dirpath")>> ELSE <<>>)
              /\ outcome' = ReturnedNone
              /\ workdir' = generate_ewoc_block_clean(args.clean, workdir)
              /\ blocks_dir' = generate_ewoc_block_clean(args.clean, blocks_dir)
              /\ features_dir' = generate_ewoc_block_clean(args.clean, features_dir)
    /\ pc' = "done"
    /\ UNCHANGED <<invocations, disk, calls, driver, args, cfg, ids_range, idx, return_codes, pb_status, pm_status,
                   ret, use_existing_features, outfold, stac_paths, vdm_last>>

----------------------------------------------------------------------------
(* mosaic_blocks and generate_ewoc_products *)

\* utils.is_empty_dirs: no file anywhere under the directory
is_empty_dirs(walk) == \A i \in 1..Len(walk) : walk[i] = 0

\* variant: the output directory is not looked at
mosaic_blocks_code_only(m) == m.exc = "none" /\ m.ret = 0

\* blocks_mosaic.py lines 69-121: the status mosaic_blocks returns
mosaic_blocks(m) ==
    IF m.exc = "get_blocks" THEN FALSE
    ELSE IF m.exc = "run_tile" THEN FALSE
    ELSE IF m.ret = 0 THEN ~is_empty_dirs(m.walk)
    ELSE FALSE

\* lines 220-235: SAR is always listed, TIR unless the given CSV has at most one row
ProductsCsvDict(no_tir) == InputKeys \ (IF no_tir THEN {"TIR"} ELSE {})

\* lines 179-256: working directory and config file
generate_ewoc_products_prepare ==
    /\ pc = "generate_ewoc_products"
    /\ workdir' = TRUE
    /\ LET no_tir == CsvShort(args.tir_csv)
           res == generate_config_file(
                      args.ewoc_detector, args.end_season_year, args.ewoc_season,
                      ProductsCsvDict(no_tir), no_tir, FALSE,
                      AddCroptype(args.end_season_year), args.env)
       IN  IF res.kind = "raised"
           THEN /\ outcome' = Raised(res.exc)
                /\ pc' = "done"
                /\ UNCHANGED cfg
           ELSE /\ cfg' = res.val
                /\ pc' = "generate_ewoc_products_mosaic"
                /\ UNCHANGED outcome
    /\ UNCHANGED <<invocations, disk, calls, driver, args, ids_range, idx, return_codes, pb_status,
                   pm_status, ret, use_existing_features, blocks_dir, features_dir,
                   outfold, stac_paths, vdm_last, log>>

\* lines 261-269 with mosaic_blocks
generate_ewoc_products_mosaic ==
    /\ pc = "generate_ewoc_products_mosaic"
    /\ IF cfg.empty
       THEN /\ outcome' = Raised("KeyError")
            /\ pc' = "done"
            /\ log' = Append(log, Ev("read_config", -1, 0, "KeyError"))
            /\ UNCHANGED <<pm_status, outfold, stac_paths>>
       ELSE \E m \in MosaicRunResults :
            IF m.exc = "symlink"
            THEN /\ outcome' = Raised(m.exc)
                 /\ pc' = "done"
                 /\ log' = Append(log, Ev("read_config", -1, 0, "ok"))
                 /\ UNCHANGED <<pm_status, outfold, stac_paths>>
            ELSE /\ pm_status' = Returned(mosaic_blocks(m))
                 /\ log' = log
                      \o <<Ev("read_config", -1, 0, "ok")>>
                      \o (IF m.exc = "get_blocks" THEN <<>>
                          ELSE <<Ev("run_tile", -1, m.ret,
                                    IF m.exc = "run_tile" THEN "mosaic_exception" ELSE "mosaic")>>)
                 /\ outfold' = m.walk
                 /\ stac_paths' = [i \in 1..m.stacs |-> i]
                 /\ IF mosaic_blocks(m)
                    THEN /\ pc' = "generate_ewoc_products_publish"
                         /\ UNCHANGED outcome
                    ELSE /\ outcome' = Raised("RuntimeError")
                         /\ pc' = "done"
    /\ UNCHANGED <<invocations, disk, calls, driver, args, cfg, ids_range, idx, return_codes, pb_status, ret,
                   use_existing_features, workdir, blocks_dir, features_dir, vdm_last>>

\* lines 312-315
generate_ewoc_products_clean(clean, present) == IF clean THEN FALSE ELSE present

\* lines 271-300: the STAC rewrite, then the upload
generate_ewoc_products_publish ==
    /\ pc = "generate_ewoc_products_publish"
    /\ LET paths == update_metajsons(Len(stac_paths)) IN
       IF paths = <<>>
       THEN /\ outcome' = Raised("RuntimeError")
            /\ pc' = "done"
            /\ UNCHANGED <<idx, log>>
       ELSE \E fault \in BOOLEAN :
            IF args.upload_prd /\ fault
            THEN /\ outcome' = Raised("RuntimeError")
                 /\ pc' = "done"
                 /\ log' = log \o PublishLog(paths, <<Ev("upload_error", -1, 0, "cogs")>>)
                 /\ UNCHANGED idx
            ELSE /\ log' = log \o PublishLog(paths,
                               IF args.upload_prd THEN <<Ev("upload", -1, 0, "cogs")>> ELSE <<>>)
                 /\ idx' = 1
                 /\ pc' = IF args.upload_prd /\ args.notify_vdm
                          THEN "generate_ewoc_products_notify"
                          ELSE "generate_ewoc_products_end"
                 /\ UNCHANGED outcome
    /\ UNCHANGED <<invocations, disk, calls, driver, args, cfg, ids_range, return_codes, pb_status, pm_status, ret,
                   use_existing_features, workdir, blocks_dir, features_dir, outfold,
                   stac_paths, vdm_last>>

\* lines 303-307: one iteration of the notification loop
generate_ewoc_products_notify ==
    /\ pc = "generate_ewoc_products_notify"
    /\ idx <= Len(stac_paths)
    /\ \E e \in VdmEnvs :
         LET res == ingest_into_vdm(e) IN
         /\ vdm_last' = [called |-> TRUE, env |-> e, res |-> res]
         /\ IF res.kind = "raised"
            THEN /\ outcome' = res
                 /\ pc' = "done"
                 /\ UNCHANGED <<idx, log>>
            ELSE /\ log' = Append(log, Ev("notify", stac_paths[idx], 0,
                                          IF res.val THEN "ok" ELSE "failed"))
                 /\ idx' = idx + 1
                 /\ pc' = IF idx = Len(stac_paths) THEN "generate_ewoc_products_end"
                          ELSE "generate_ewoc_products_notify"
                 /\ UNCHANGED outcome
    /\ UNCHANGED <<invocations, disk, calls, driver, args, cfg, ids_range, return_codes, pb_status, pm_status, ret,
                   use_existing_features, workdir, blocks_dir, features_dir, outfold,
                   stac_paths>>

\* lines 312-315: the cleaning, then the return
generate_ewoc_products_end ==
    /\ pc = "generate_ewoc_products_end"
    /\ outcome' = ReturnedNone
    /\ pc' = "done"
    /\ log' = log \o (IF args.clean THEN <<Ev("rmtree", -1, 0, "out_dirpath")>> ELSE <<>>)
    /\ workdir' = generate_ewoc_products_clean(args.clean, workdir)
    /\ blocks_dir' = generate_ewoc_products_clean(args.clean, blocks_dir)
    /\ features_dir' = generate_ewoc_products_clean(args.clean, features_dir)
    /\ UNCHANGED <<invocations, disk, calls, driver, args, cfg, ids_range, idx, return_codes, pb_status, pm_status,
                   ret, use_existing_features, outfold, stac_paths, vdm_last>>

----------------------------------------------------------------------------
(* Two invocations of a driver for the same tile and production id, side   *)
(* by side: run_classif lines 495-505 and 646-650, generate_ewoc_block     *)
(* lines 795-803 and 974-977, generate_ewoc_products lines 179-188 and     *)
(* 312-315.  A directory is 0 for the out_dirpath the caller gave, or the  *)
(* uid of gettempdir()/{tile_id}_{uid}; Cwd is the current directory, where *)
(* the engine leaves its {tile_id}.tif files.                              *)

\* values uuid4().hex[:6] can take
MaxUid == 2

Cwd == -1
GivenDir == 0

File(dir, owner) == [dir |-> dir, owner |-> owner]
EmptyDisk == [dirs |-> {}, files |-> {}]

Invocation(given, clean) ==
    [pc |-> "start", given |-> given, clean |-> clean, dir |-> GivenDir]

Concurrent == driver = "concurrent"

\* the other variables do not move
Aside ==
    UNCHANGED <<driver, args, pc, outcome, cfg, ids_range, idx, return_codes, pb_status,
                pm_status, ret, use_existing_features, workdir, blocks_dir, features_dir,
                outfold, stac_paths, vdm_last, log, calls>>

\* uid, out_dirpath.mkdir() under gettempdir() (FileExistsError if it is
\* there), block_features with exist_ok, then the config file is written
invocation_start(i) ==
    /\ Concurrent
    /\ invocations[i].pc = "start"
    /\ \E uid \in 1..MaxUid :
         LET dir == IF invocations[i].given THEN GivenDir ELSE uid IN
         IF ~invocations[i].given /\ dir \in disk.dirs
         THEN /\ invocations' = [invocations EXCEPT ![i].pc = "FileExistsError"]
              /\ UNCHANGED disk
         ELSE /\ invocations' = [invocations EXCEPT ![i].pc = "prepared", ![i].dir = dir]
              /\ disk' = [dirs |-> disk.dirs \cup {dir},
                          files |-> disk.files \cup {File(dir, i)}]
    /\ Aside

\* the engine starts: it reads the config file and works in the current directory
invocation_engine(i) ==
    /\ Concurrent
    /\ invocations[i].pc = "prepared"
    /\ IF File(invocations[i].dir, i) \in disk.files
       THEN /\ invocations' = [invocations EXCEPT ![i].pc = "running"]
            /\ disk' = [disk EXCEPT !.files = @ \cup {File(Cwd, i)}]
       ELSE /\ invocations' = [invocations EXCEPT ![i].pc = "FileNotFoundError"]
            /\ UNCHANGED disk
    /\ Aside

\* the engine returns
invocation_engine_end(i) ==
    /\ Concurrent
    /\ invocations[i].pc = "running"
    /\ invocations' = [invocations EXCEPT ![i].pc = "cleaning"]
    /\ UNCHANGED disk
    /\ Aside

\* rmtree(out_dirpath), then remove_tmp_files(Path.cwd(), f"{tile_id}.tif")
Cleaned(d, dir) ==
    [dirs |-> d.dirs \ {dir}, files |-> {f \in d.files : f.dir \notin {dir, Cwd}}]

\* if clean: the cleaning; rmtree raises when the directory is gone
invocation_clean(i) ==
    /\ Concurrent
    /\ invocations[i].pc = "cleaning"
    /\ IF ~invocations[i].clean
       THEN /\ invocations' = [invocations EXCEPT ![i].pc = "done"]
            /\ UNCHANGED disk
       ELSE IF invocations[i].dir \notin disk.dirs
       THEN /\ invocations' = [invocations EXCEPT ![i].pc = "FileNotFoundError"]
            /\ UNCHANGED disk
       ELSE /\ invocations' = [invocations EXCEPT ![i].pc = "done"]
            /\ disk' = Cleaned(disk, invocations[i].dir)
    /\ Aside

----------------------------------------------------------------------------
(* Initial states *)

\* the defaults of the drivers' keyword arguments
\* the rows of an index that covers the season, and of one with a single product
CompleteRows == <<Product(1, FALSE), Product(2, FALSE), Product(3, FALSE)>>
SingleRow == <<Product(2, FALSE)>>

\* the indexes a driver meets
Indexes ==
    {Index(FALSE, CompleteRows), Index(FALSE, SingleRow), Index(TRUE, SingleRow),
     Index(TRUE, <<>>)}

ArgsBase ==
    [block_ids |-> <<>>, has_block_ids |-> FALSE, blocksize |-> "512",
     upload_block |-> TRUE, clean |-> TRUE, upload_log |-> FALSE,
     ewoc_detector |-> "cropland", use_existing_features |-> TRUE,
     postprocess |-> FALSE, ignore_existing_features |-> FALSE,
     upload_prd |-> TRUE, notify_vdm |-> TRUE,
     ewoc_season |-> "annual", end_season_year |-> 2021,
     croptype_model_version |-> "v720",
     sar_csv |-> Index(FALSE, CompleteRows), tir_csv |-> Index(FALSE, CompleteRows),
     env |-> DefaultEnv]

Detectors == {"cropland", "croptype", "other"}
Seasons == {"annual", "summer1", "summer2", "winter", "custom"}
Years == {2021, 2022}

\* the detector, season and year the drivers are run with: the default, a
\* croptype season, a season croptype does not support, an unknown detector
Settings ==
    {[ewoc_detector |-> "cropland", ewoc_season |-> "annual", end_season_year |-> 2021],
     [ewoc_detector |-> "croptype", ewoc_season |-> "summer1", end_season_year |-> 2022],
     [ewoc_detector |-> "croptype", ewoc_season |-> "annual", end_season_year |-> 2021],
     [ewoc_detector |-> "other", ewoc_season |-> "annual", end_season_year |-> 2021]}

WithSettings(a, s) ==
    [a EXCEPT !.ewoc_detector = s.ewoc_detector, !.ewoc_season = s.ewoc_season,
              !.end_season_year = s.end_season_year]

\* the SAR and the TIR index of the call
WithCollections(a, sar, tir) ==
    [a EXCEPT !.sar_csv = sar, !.tir_csv = tir]

\* the config files an earlier call has written
WrittenConfigs(reuses) ==
    LET results == {generate_config_file(s.ewoc_detector, s.end_season_year,
                                         s.ewoc_season, InputKeys, FALSE, u, FALSE,
                                         DefaultEnv) : s \in Settings, u \in reuses}
    IN  {r.val : r \in {x \in results : x.kind = "returned"}}

BlockLists == SeqsUpTo(BlockIds, MaxBlocks)

\* calls with an explicit block list
ListArgs ==
    {[ArgsBase EXCEPT !.block_ids = ids, !.has_block_ids = TRUE, !.upload_block = up,
                      !.clean = cl, !.upload_log = ul] :
        ids \in BlockLists, up \in BOOLEAN, cl \in BOOLEAN, ul \in BOOLEAN}

ShortListArgs == {a \in ListArgs : Len(a.block_ids) <= 1}

\* calls for the whole tile
TileArgs ==
    {[ArgsBase EXCEPT !.blocksize = bs, !.upload_block = up] :
        bs \in {"512", "1024", "256"}, up \in BOOLEAN}

InitCommon ==
    /\ outcome = Running
    /\ ids_range = <<>>
    /\ idx = 0
    /\ return_codes = <<>>
    /\ pb_status = Running
    /\ pm_status = Running
    /\ ret = 0
    /\ blocks_dir = FALSE
    /\ outfold = <<>>
    /\ stac_paths = <<>>
    /\ vdm_last = NoVdm
    /\ log = <<>>
    /\ calls = <<>>
    /\ invocations = <<>>
    /\ disk = EmptyDisk

\* the whole tile is run on a cropland config, or on {}
TileConfigs ==
    {c \in WrittenConfigs({FALSE}) : c.parameters.featuresettings \in {"cropland", "none"}}

\* the longer block lists are run on a cropland config
CroplandConfigs ==
    {c \in WrittenConfigs(BOOLEAN) : c.parameters.featuresettings = "cropland"}

\* process_blocks called on a config file written earlier
InitProcessBlocks ==
    /\ driver = "process_blocks"
    /\ args \in ListArgs \cup TileArgs
    /\ pc = "process_blocks"
    /\ cfg \in (IF ~args.has_block_ids THEN TileConfigs
                ELSE IF Len(args.block_ids) > 1 THEN CroplandConfigs
                ELSE WrittenConfigs(BOOLEAN))
    /\ use_existing_features = cfg.parameters.use_existing_features
    /\ workdir = TRUE
    /\ features_dir = cfg.parameters.use_existing_features
    /\ InitCommon

\* postprocess_mosaic called on a config file written earlier
InitPostprocessMosaic ==
    /\ driver = "postprocess_mosaic"
    /\ args = ArgsBase
    /\ pc = "postprocess_mosaic"
    /\ cfg \in WrittenConfigs({FALSE})
    /\ use_existing_features = FALSE
    /\ workdir = TRUE
    /\ features_dir = FALSE
    /\ InitCommon

RunClassifArgs ==
    {[a EXCEPT !.use_existing_features = u] :
        a \in {x \in ListArgs : ~x.upload_log}, u \in BOOLEAN}
    \cup {WithCollections(WithSettings([a EXCEPT !.use_existing_features = u], s), ns, nt) :
            a \in {x \in ShortListArgs : ~x.upload_log /\ x.upload_block},
            s \in Settings, u \in BOOLEAN, ns \in Indexes, nt \in Indexes}
    \cup {[ArgsBase EXCEPT !.use_existing_features = u] : u \in BOOLEAN}
    \cup {[ArgsBase EXCEPT !.postprocess = TRUE, !.clean = cl, !.block_ids = ids,
                           !.has_block_ids = h, !.use_existing_features = u] :
            cl \in BOOLEAN, u \in BOOLEAN,
            ids \in {<<>>, <<0>>}, h \in BOOLEAN}

InitRunClassif ==
    /\ driver = "run_classif"
    /\ args \in RunClassifArgs
    /\ pc = "run_classif"
    /\ cfg = NoCfg
    /\ use_existing_features = args.use_existing_features
    /\ workdir = FALSE
    /\ features_dir = FALSE
    /\ InitCommon

GenerateBlockArgs ==
    {[ArgsBase EXCEPT !.block_ids = <<b>>, !.has_block_ids = TRUE, !.upload_block = up,
                      !.clean = cl, !.upload_log = ul, !.ignore_existing_features = ig] :
        b \in BlockIds, up \in BOOLEAN, cl \in BOOLEAN, ul \in BOOLEAN, ig \in BOOLEAN}
    \cup {WithCollections(WithSettings(
             [ArgsBase EXCEPT !.block_ids = <<0>>, !.has_block_ids = TRUE, !.clean = cl,
                              !.ignore_existing_features = ig], s), ns, nt) :
            cl \in BOOLEAN, s \in Settings, ig \in BOOLEAN,
            ns \in Indexes, nt \in Indexes}

InitGenerateBlock ==
    /\ driver = "generate_ewoc_block"
    /\ args \in GenerateBlockArgs
    /\ pc = "generate_ewoc_block"
    /\ cfg = NoCfg
    /\ use_existing_features = FALSE
    /\ workdir = FALSE
    /\ features_dir = FALSE
    /\ InitCommon

GenerateProductsArgs ==
    {WithSettings([ArgsBase EXCEPT !.clean = cl, !.upload_prd = up, !.notify_vdm = nt,
                                   !.tir_csv = tir], s) :
        cl \in BOOLEAN, s \in Settings, up \in BOOLEAN, nt \in BOOLEAN,
        tir \in Indexes}

InitGenerateProducts ==
    /\ driver = "generate_ewoc_products"
    /\ args \in GenerateProductsArgs
    /\ pc = "generate_ewoc_products"
    /\ cfg = NoCfg
    /\ use_existing_features = FALSE
    /\ workdir = FALSE
    /\ features_dir = FALSE
    /\ InitCommon

\* the arguments generate_config_file is called with
ConfigArgs ==
    [featuresettings : Detectors, ewoc_season : Seasons, end_season_year : Years,
     csv_dict : {InputKeys, InputKeys \ {"TIR"}}, no_tir_data : BOOLEAN,
     use_existing_features : BOOLEAN, add_croptype : BOOLEAN]

\* generate_config_file called twice with the same arguments
InitGenerateConfig ==
    /\ driver = "generate_config_file"
    /\ args \in ConfigArgs
    /\ pc = "generate_config_file"
    /\ cfg = NoCfg
    /\ use_existing_features = FALSE
    /\ workdir = FALSE
    /\ features_dir = FALSE
    /\ InitCommon

\* the production ids the AEZ id is derived from
ProductionIds == SeqsUpTo(IdChars, MaxIdLen)

InitAezId ==
    /\ driver = "aez_id"
    /\ args \in [production_id : ProductionIds]
    /\ pc = "aez_id"
    /\ cfg = NoCfg
    /\ use_existing_features = FALSE
    /\ workdir = FALSE
    /\ features_dir = FALSE
    /\ InitCommon

\* the collections check_collection is given: SAR products have no no-data flag
Collections(name) ==
    SeqsUpTo({Product(d, n) : d \in Dates, n \in IF name = "TIR" THEN BOOLEAN ELSE {FALSE}},
             MaxColl)

\* the gap tolerances of get_coll_maxgap, in days
Thresholds == {1, 2}

CheckCollectionArgs ==
    UNION {[collection : Collections(name), name : {name}, start_date : {1},
            end_date : {3}, fail_threshold : Thresholds] : name \in CollectionNames}

InitCheckCollection ==
    /\ driver = "check_collection"
    /\ args \in CheckCollectionArgs
    /\ pc = "check_collection"
    /\ cfg = NoCfg
    /\ use_existing_features = FALSE
    /\ workdir = FALSE
    /\ features_dir = FALSE
    /\ InitCommon

InitDownloadFeatures ==
    /\ driver = "download_features"
    /\ args \in [ewoc_season : Seasons, exists : SUBSET Artifacts]
    /\ pc = "download_features"
    /\ cfg = NoCfg
    /\ use_existing_features = FALSE
    /\ workdir = FALSE
    /\ features_dir = FALSE
    /\ InitCommon

InitUpdateMetajsons ==
    /\ driver = "update_metajsons"
    /\ \E out \in OutDirs :
         args \in [production_id : MetaProductionIds, out_dir_folder : {out},
                   tree : Trees(out)]
    /\ pc = "update_metajsons"
    /\ cfg = NoCfg
    /\ use_existing_features = FALSE
    /\ workdir = FALSE
    /\ features_dir = FALSE
    /\ InitCommon

InitConcurrent ==
    /\ driver = "concurrent"
    /\ args = [tile_id |-> "same", production_id |-> "same"]
    /\ pc = "concurrent"
    /\ cfg = NoCfg
    /\ use_existing_features = FALSE
    /\ workdir = FALSE
    /\ features_dir = FALSE
    /\ outcome = Running
    /\ ids_range = <<>>
    /\ idx = 0
    /\ return_codes = <<>>
    /\ pb_status = Running
    /\ pm_status = Running
    /\ ret = 0
    /\ blocks_dir = FALSE
    /\ outfold = <<>>
    /\ stac_paths = <<>>
    /\ vdm_last = NoVdm
    /\ log = <<>>
    /\ calls = <<>>
    /\ invocations \in {<<Invocation(g1, c1), Invocation(g2, c2)>> :
                            g1 \in BOOLEAN, g2 \in BOOLEAN, c1 \in BOOLEAN, c2 \in BOOLEAN}
    /\ disk = EmptyDisk

Init ==
    \/ InitConcurrent
    \/ InitGenerateConfig
    \/ InitDownloadFeatures
    \/ InitUpdateMetajsons
    \/ InitCheckCollection
    \/ InitAezId
    \/ InitProcessBlocks
    \/ InitPostprocessMosaic
    \/ InitRunClassif
    \/ InitGenerateBlock
    \/ InitGenerateProducts

Next ==
    \/ \E i \in 1..2 : invocation_start(i)
    \/ \E i \in 1..2 : invocation_engine(i)
    \/ \E i \in 1..2 : invocation_engine_end(i)
    \/ \E i \in 1..2 : invocation_clean(i)
    \/ generate_config_file_call
    \/ download_features_call
    \/ update_metajsons_call
    \/ check_collection_call
    \/ aez_id_call
    \/ process_blocks_begin
    \/ process_blocks_block
    \/ process_blocks_end
    \/ postprocess_mosaic_run
    \/ postprocess_mosaic_publish
    \/ postprocess_mosaic_notify
    \/ run_classif_prepare
    \/ run_classif_finally
    \/ generate_ewoc_block_prepare
    \/ generate_ewoc_block_classify
    \/ generate_ewoc_block_finish
    \/ generate_ewoc_products_prepare
    \/ generate_ewoc_products_mosaic
    \/ generate_ewoc_products_publish
    \/ generate_ewoc_products_notify
    \/ generate_ewoc_products_end

Spec == Init /\ [][Next]_vars

----------------------------------------------------------------------------
(* What the log says *)

PBDriver == driver \in {"process_blocks", "run_classif"} /\ ~args.postprocess
PBFinished == PBDriver /\ pb_status.kind # "running"
PMDriver == driver = "postprocess_mosaic" \/ (driver = "run_classif" /\ args.postprocess)

IsBlockRun(e) == e.ev = "run_tile" /\ e.tag \in {"block", "exception"}
IsBlockUpload(e) ==
    /\ e.ev \in {"upload", "upload_error"}
    /\ e.tag \in {"blocks", "exitlogs", "proclogs", "block_features"}
IsBlockFault(e) == IsBlockRun(e) \/ (e.ev = "upload_error" /\ IsBlockUpload(e))
IsMosaicOutput(e) == e.ev \in {"rewrite", "upload", "upload_error", "notify"}

\* the engine's block-mode calls, in order
BlockRuns == SelectSeq(log, IsBlockRun)
\* the same, with the uploads that raised in between
BlockFaults == SelectSeq(log, IsBlockFault)

\* the engine returned 0 or 1
RunOk(e) == e.tag = "block" /\ e.ret \in {0, 1}
RunSuccess(e) == e.tag = "block" /\ e.ret = 0
RunSkip(e) == e.tag = "block" /\ e.ret = 1
RunFailureCode(e) == e.tag = "block" /\ e.ret \notin {0, 1}

NoUploadError == \A j \in 1..Len(log) : log[j].ev # "upload_error"
NoBlockException ==
    LET faults == BlockFaults
    IN  \A k \in 1..Len(faults) : faults[k].ev = "run_tile" /\ faults[k].tag = "block"
AllBlocksOk ==
    LET runs == BlockRuns
    IN  NoUploadError /\ \A k \in 1..Len(runs) : RunOk(runs[k])
SomeBlockUpload == \E j \in 1..Len(log) : IsBlockUpload(log[j])
MosaicRan == \E j \in 1..Len(log) : log[j].ev = "run_tile" /\ log[j].tag = "mosaic"

----------------------------------------------------------------------------
(* Claims *)

\* C1: a call of process_blocks with an explicit block_ids list that returns,
\* returns true exactly when every attempted block ended with engine code 0 or
\* 1 and nothing raised while a block was handled (engine call or upload).
C1_AggregationLaw ==
    (PBFinished /\ args.has_block_ids /\ pb_status.kind = "returned")
        => (pb_status.val <=> AllBlocksOk)

C1_Witness ==
    /\ PBFinished
    /\ args.has_block_ids
    /\ pb_status = Returned(FALSE)
    /\ Len(BlockRuns) = 2
    /\ RunSuccess(BlockRuns[1])
    /\ RunFailureCode(BlockRuns[2])

\* C2: when process_blocks has ended, the engine was called on the blocks of
\* the list, in the order of the list; an engine exception or a raising upload
\* is the last thing attempted; and without any of those every block of the
\* list was attempted, failure codes or not.
C2_OrderAndFailFast ==
    PBFinished =>
        LET runs == BlockRuns
            faults == BlockFaults
        IN  /\ Len(runs) <= Len(ids_range)
            /\ \A k \in 1..Len(runs) : runs[k].blk = ids_range[k]
            /\ \A k \in 1..(Len(faults) - 1) :
                  faults[k].ev = "run_tile" /\ faults[k].tag = "block"
            /\ NoBlockException => Len(runs) = Len(ids_range)

C2_Witness ==
    /\ PBFinished
    /\ Len(BlockRuns) = 2
    /\ RunFailureCode(BlockRuns[1])
    /\ BlockRuns[1].blk # BlockRuns[2].blk

IdsAre(n) == Len(ids_range) = n /\ \A i \in 1..n : ids_range[i] = i - 1
RunsAre(n) ==
    LET runs == BlockRuns
    IN  Len(runs) = n /\ \A i \in 1..n : runs[i].blk = i - 1

\* C3: without block_ids, block size 512 gives the block list 0..483 (484
\* ids) and 1024 gives 0..120 (121 ids), which are the blocks the engine is
\* called on when nothing raises; any other block size makes process_blocks
\* return false with no engine call and without reading the config file.
C3_BlockRange ==
    (PBDriver /\ ~args.has_block_ids
       /\ (pb_status.kind # "running" \/ (pc = "process_blocks_loop" /\ idx = 1)))
    => IF args.blocksize = "512"
       THEN cfg.empty \/ (IdsAre(484) /\ (PBFinished /\ NoBlockException => RunsAre(484)))
       ELSE IF args.blocksize = "1024"
       THEN cfg.empty \/ (IdsAre(121) /\ (PBFinished /\ NoBlockException => RunsAre(121)))
       ELSE pb_status = Returned(FALSE) /\ log = <<>>

C3_Witness ==
    /\ PBFinished
    /\ ~args.has_block_ids
    /\ args.blocksize = "512"
    /\ idx = 485
    /\ RunsAre(484)

\* the booleans process_blocks records, read off the log
ExpectedCodes ==
    LET runs == BlockRuns
    IN  [k \in 1..Len(runs) |-> RunOk(runs[k])]
        \o (IF NoUploadError THEN <<>> ELSE <<FALSE>>)

\* C4: in process_blocks every upload follows, within the same block, an
\* engine return of 0, and needs upload_block; a block with code 1 or with a
\* failure code uploads nothing; code 1 is recorded as true and the next block
\* of the list is attempted; a failure code is recorded as false.
C4_UploadOnlyOnSuccess ==
    PBFinished =>
        /\ \A j \in 1..Len(log) :
              IsBlockUpload(log[j]) =>
                /\ args.upload_block
                /\ j > 1
                /\ log[j - 1].blk = log[j].blk
                /\ \/ IsBlockRun(log[j - 1]) /\ RunSuccess(log[j - 1])
                   \/ log[j - 1].ev = "upload"
        /\ LET runs == BlockRuns
           IN  \A k \in 1..Len(runs) :
                  (RunSkip(runs[k]) /\ k < Len(ids_range)) => Len(runs) > k
        /\ return_codes = ExpectedCodes

C4_Witness ==
    /\ PBFinished
    /\ args.upload_block
    /\ Len(BlockRuns) = 2
    /\ RunSkip(BlockRuns[1])
    /\ RunSuccess(BlockRuns[2])
    /\ \E j \in 1..Len(log) : log[j].ev = "upload" /\ log[j].blk = BlockRuns[2].blk
    /\ \A j \in 1..Len(log) : log[j].ev = "upload" => log[j - 1].ev # "run_tile"
                                                       \/ RunSuccess(log[j - 1])

\* C5: a call of run_classif in which process_blocks returned false or the
\* mosaic stage raised does not return normally.
C5_FailureSurfaced ==
    (driver = "run_classif" /\ outcome.kind = "returned")
        => /\ pb_status # Returned(FALSE)
           /\ pm_status.kind # "raised"

\* C6: when generate_ewoc_block has ended after its engine call: block
\* products were uploaded only if the engine returned 0 and upload_block is
\* true; after code 1 nothing was uploaded and the call returned; after any
\* other code, or an engine exception, the call raised RuntimeError and
\* uploaded nothing.
C6_BlockOutcome ==
    (driver = "generate_ewoc_block" /\ pc = "done" /\ Len(BlockRuns) = 1)
        => /\ SomeBlockUpload => (RunSuccess(BlockRuns[1]) /\ args.upload_block)
           /\ RunSkip(BlockRuns[1]) => (~SomeBlockUpload /\ outcome.kind = "returned")
           /\ ~RunOk(BlockRuns[1]) => (~SomeBlockUpload /\ outcome = Raised("RuntimeError"))

\* the try block of run_classif was entered
StageEntered == pb_status.kind # "running" \/ pm_status.kind # "running"

\* C7: with clean, the working directory is gone when run_classif has ended
\* after entering the block or mosaic stage, however that stage ended; without
\* clean the working directory stays once run_classif has created it.
C7_RunClassifCleanup ==
    driver = "run_classif" =>
        /\ (args.clean /\ outcome.kind # "running" /\ StageEntered) => ~workdir
        /\ (~args.clean /\ pc # "run_classif") => workdir

C7_Witness ==
    /\ driver = "run_classif"
    /\ args.clean
    /\ pc = "done"
    /\ pb_status = Returned(FALSE)
    /\ ~workdir

\* C8: with clean, the working directory is gone whenever generate_ewoc_block
\* or generate_ewoc_products has ended, by returning or by raising the
\* RuntimeError with which they report a failed stage.
C8_DriverCleanup ==
    (driver \in {"generate_ewoc_block", "generate_ewoc_products"} /\ args.clean
       /\ (outcome.kind = "returned" \/ outcome = Raised("RuntimeError")))
        => ~workdir

\* C9: once the mosaic engine call has returned and the expected output
\* directory is missing or holds no file, postprocess_mosaic rewrites no STAC
\* file, uploads nothing, notifies nothing, and ends by raising.
C9_EmptyMosaicRaises ==
    (PMDriver /\ MosaicRan /\ SumSeq(outfold) = 0)
        => /\ \A j \in 1..Len(log) : ~IsMosaicOutput(log[j])
           /\ pc # "postprocess_mosaic_publish" => pm_status = Raised("Exception")

C9_Witness ==
    /\ PMDriver
    /\ pm_status = Raised("Exception")
    /\ \E j \in 1..Len(log) :
          log[j].ev = "run_tile" /\ log[j].tag = "mosaic" /\ log[j].ret = 0
    /\ Len(outfold) = 2
    /\ SumSeq(outfold) = 0

\* the notification loop of a mosaic driver was due and the driver has ended
NotifyDue ==
    /\ driver \in {"postprocess_mosaic", "generate_ewoc_products"}
    /\ outcome.kind # "running"
    /\ args.notify_vdm
    /\ \E j \in 1..Len(log) : log[j].ev = "upload" /\ log[j].tag = "cogs"

NotifyCount == Len(SelectSeq(log, LAMBDA e : e.ev = "notify"))

\* C10: every call of ingest_into_vdm returns a boolean, false unless the
\* catalog answered 200, and so every STAC file of a batch is notified.
C10_NotifyNeverRaises ==
    /\ vdm_last.called =>
          /\ vdm_last.res.kind = "returned"
          /\ vdm_last.res.val <=> vdm_last.env = VdmOk
    /\ NotifyDue => NotifyCount = Len(stac_paths)

GPDriver == driver = "generate_ewoc_products"

SomeMosaicOutput == \E j \in 1..Len(log) : IsMosaicOutput(log[j])

\* the block download and the engine call did not raise, the engine returned
\* 0 and the expected output directory holds a file
MosaicOk ==
    /\ \E j \in 1..Len(log) :
          log[j].ev = "run_tile" /\ log[j].tag = "mosaic" /\ log[j].ret = 0
    /\ SumSeq(outfold) > 0

\* C11: in generate_ewoc_products, mosaic_blocks reports success exactly when
\* neither the block download nor the engine call raised, the engine returned
\* 0 and the output directory is not empty; STAC rewrite, upload and
\* notification happen only after it reported success; when it reports
\* failure the driver raises RuntimeError with nothing rewritten, uploaded or
\* notified; the catalog is called only with upload_prd and notify_vdm.
C11_MosaicGate ==
    GPDriver =>
        /\ pm_status.kind = "returned" => (pm_status.val <=> MosaicOk)
        /\ SomeMosaicOutput => pm_status = Returned(TRUE)
        /\ pm_status = Returned(FALSE)
              => (outcome = Raised("RuntimeError") /\ ~SomeMosaicOutput /\ ~vdm_last.called)
        /\ vdm_last.called => (args.upload_prd /\ args.notify_vdm)

C11_Witness ==
    /\ GPDriver
    /\ pm_status = Returned(FALSE)
    /\ outcome = Raised("RuntimeError")
    /\ \E j \in 1..Len(log) :
          log[j].ev = "run_tile" /\ log[j].tag = "mosaic" /\ log[j].ret = 0
    /\ Len(outfold) = 2
    /\ SumSeq(outfold) = 0

\* the drivers that upload to the product store
UploadDrivers == {"run_classif", "generate_ewoc_block", "generate_ewoc_products"}

\* C12: when a driver has ended and one of its uploads to the product store
\* raised, the driver's call ended with a raised RuntimeError, never with a
\* normal return.
C12_UploadFailureRaised ==
    (driver \in UploadDrivers /\ ~args.postprocess /\ outcome.kind # "running"
       /\ ~NoUploadError)
        => outcome = Raised("RuntimeError")

ConfigDriver == driver = "generate_config_file"

ModelNames(config) == {m.name : m \in config.models}

\* the model names the specification gives for a croptype season
SeasonModels(ewoc_season, add_croptype) ==
    CASE ewoc_season = "summer1" ->
            IF add_croptype THEN {"maize", "springcereals", "sunflower"}
            ELSE {"maize", "springcereals"}
      [] ewoc_season = "summer2" -> {"maize"}
      [] ewoc_season = "winter" ->
            IF add_croptype THEN {"wintercereals", "rapeseed"} ELSE {"wintercereals"}

SupportedCroptypeSeasons == {"summer1", "summer2", "winter"}

\* C13: every call of generate_config_file for croptype with season summer1,
\* summer2 or winter returns a config whose models are exactly those of the
\* season (sunflower or rapeseed added iff add_croptype, never for summer2);
\* every call for cropland returns the models {annualcropland}.
C13_ModelSet ==
    ConfigDriver =>
        \A k \in 1..Len(calls) :
            /\ (args.featuresettings = "croptype"
                  /\ args.ewoc_season \in SupportedCroptypeSeasons)
                 => /\ calls[k].res.kind = "returned"
                    /\ ModelNames(calls[k].res.val)
                          = SeasonModels(args.ewoc_season, args.add_croptype)
            /\ args.featuresettings = "cropland"
                 => /\ calls[k].res.kind = "returned"
                    /\ ModelNames(calls[k].res.val) = {"annualcropland"}

C13_Witness ==
    /\ ConfigDriver
    /\ args.featuresettings = "croptype"
    /\ args.ewoc_season = "summer2"
    /\ args.add_croptype
    /\ Len(calls) = 1
    /\ ModelNames(calls[1].res.val) = {"maize"}

\* the detector and season make an unsupported configuration
Unsupported(featuresettings, ewoc_season) ==
    \/ featuresettings \notin {"cropland", "croptype"}
    \/ featuresettings = "croptype" /\ ewoc_season \notin SupportedCroptypeSeasons

\* drivers that build the configuration themselves
BuildingDrivers == {"run_classif", "generate_ewoc_block", "generate_ewoc_products"}

NoEngineCall == \A j \in 1..Len(log) : log[j].ev # "run_tile"

\* C14: for an unsupported configuration generate_config_file returns the
\* empty configuration, and a driver run on an unsupported configuration
\* calls the engine never and uploads nothing.
C14_UnsupportedConfig ==
    /\ ConfigDriver =>
          \A k \in 1..Len(calls) :
             Unsupported(args.featuresettings, args.ewoc_season)
                => (calls[k].res.kind = "returned" /\ calls[k].res.val.empty)
    /\ (driver \in BuildingDrivers /\ Unsupported(args.ewoc_detector, args.ewoc_season))
          => (NoEngineCall /\ \A j \in 1..Len(log) : ~IsMosaicOutput(log[j]))

\* the driver looked at the TIR collection and found it degraded
FoundTirDegraded ==
    \/ /\ driver = "run_classif"
       /\ ~(args.use_existing_features /\ args.has_block_ids)
       /\ CollectionDegraded(args.tir_csv, "TIR")
    \/ /\ driver = "generate_ewoc_block"
       /\ ~use_existing_features
       /\ CollectionDegraded(args.tir_csv, "TIR")
    \/ /\ driver = "generate_ewoc_products"
       /\ CsvShort(args.tir_csv)

\* C15: a croptype call of generate_config_file with no_tir_data sets
\* irrigation to false and gives no irrmodels and no irrparameters; without
\* no_tir_data it sets irrigation to true and gives the irrigation model; a
\* driver that found the TIR collection degraded writes a config whose
\* inputs have no TIR key and, for croptype, no irrigation model.
C15_IrrigationSwitch ==
    /\ ConfigDriver =>
          \A k \in 1..Len(calls) :
             (args.featuresettings = "croptype" /\ calls[k].res.kind = "returned")
                => LET p == calls[k].res.val.parameters IN
                   IF args.no_tir_data
                   THEN p.irrigation = "false" /\ p.irrmodels = {}
                        /\ p.irrparameters = "absent"
                   ELSE p.irrigation = "true" /\ p.irrparameters = "irrigation"
                        /\ {m.name : m \in p.irrmodels} = {"irrigation"}
    /\ (driver \in BuildingDrivers /\ ~cfg.empty /\ FoundTirDegraded)
          => /\ "TIR" \notin cfg.inputs
             /\ cfg.parameters.featuresettings = "croptype"
                   => (cfg.parameters.irrigation = "false" /\ cfg.parameters.irrmodels = {})

C15_Witness ==
    /\ driver = "generate_ewoc_block"
    /\ args.ewoc_detector = "croptype"
    /\ FoundTirDegraded
    /\ pc = "done"
    /\ ~cfg.empty
    /\ cfg.parameters.irrigation = "false"
    /\ cfg.inputs = InputKeys \ {"TIR"}
    /\ ~NoEngineCall

\* C16: two calls of generate_config_file with the same arguments return the
\* same configuration, whatever the environment of each call.
C16_PureFunction ==
    (ConfigDriver /\ Len(calls) >= 2) => calls[1].res = calls[2].res

AezDriver == driver = "aez_id"

\* a decimal number, with or without a sign
IsNumeric(t) == IsDigits(t) \/ (Len(t) > 1 /\ t[1] = "-" /\ IsDigits(Tail(t)))

NumericValue(t) == IF IsDigits(t) THEN DigitsValue(t) ELSE 0 - DigitsValue(Tail(t))

\* the id has the form X_{aez}_{timestamp}: at least three parts, the
\* second-to-last one a number
WellFormedId(s) ==
    LET tokens == split(s)
    IN  Len(tokens) >= 3 /\ IsNumeric(tokens[Len(tokens) - 1])

\* C17: the AEZ id of a production id of the form X_{aez}_{timestamp} is the
\* integer aez, and deriving the AEZ id of any other production id raises.
C17_AezParse ==
    (AezDriver /\ Len(calls) = 1) =>
        IF WellFormedId(args.production_id)
        THEN LET tokens == split(args.production_id)
             IN  calls[1].res = IntReturned(NumericValue(tokens[Len(tokens) - 1]))
        ELSE calls[1].res.kind = "raised"

CheckDriver == driver = "check_collection"

\* the products of the collection inside [start_date - 1, end_date + 1), for
\* TIR without the no-data products
Kept ==
    {i \in 1..Len(args.collection) :
        /\ args.collection[i].date >= args.start_date - 1
        /\ args.collection[i].date < args.end_date + 1
        /\ (args.name = "TIR" => ~args.collection[i].nodata)}

KeptDates == {args.collection[i].date : i \in Kept}

Floor0(n) == IF n < 0 THEN 0 ELSE n

\* a gap of more than the threshold between a kept product and the kept
\* product before it
GapBetweenKept ==
    \E i, j \in Kept :
        /\ i < j
        /\ \A k \in Kept : ~(i < k /\ k < j)
        /\ args.collection[j].date - args.collection[i].date > args.fail_threshold

Degraded ==
    \/ Cardinality(Kept) < DefaultMinSize
    \/ \A d \in KeptDates : Floor0(d - args.start_date) > args.fail_threshold
    \/ \A d \in KeptDates : Floor0(args.end_date - d) > args.fail_threshold
    \/ GapBetweenKept

DownloadDriver == driver = "download_features"

\* the artifacts the season asks for
Wanted ==
    IF args.ewoc_season = "annual" THEN {"features_cropland"}
    ELSE {"features_croptype", "features_irrigation"}

\* C19: download_features returns whether every feature artifact of the
\* season exists (cropland features for annual; croptype and irrigation
\* features otherwise), downloads exactly the ones that exist, and returns
\* normally whatever is absent.
C19_DownloadFeatures ==
    (DownloadDriver /\ Len(calls) = 1) =>
        /\ calls[1].res.kind = "returned"
        /\ calls[1].res.val = (Wanted \subseteq args.exists)
        /\ calls[1].res.downloaded = Wanted \cap args.exists

C19_Witness ==
    /\ DownloadDriver
    /\ Len(calls) = 1
    /\ args.ewoc_season = "summer1"
    /\ args.exists = {"features_irrigation", "features_cropland"}
    /\ calls[1].res.val = FALSE
    /\ calls[1].res.downloaded = {"features_irrigation"}

WholeTile == driver = "process_blocks" /\ ~args.has_block_ids
LoopEntered == \E j \in 1..Len(log) : log[j].ev = "read_config" /\ log[j].tag = "ok"

\* C20: process_blocks without block_ids never calls the engine in mosaic
\* mode and never returns true; once the block loop is over it returns false
\* if a block failed and otherwise raises NotImplementedError, every block of
\* the tile having been processed by then.
C20_WholeTileNotImplemented ==
    WholeTile =>
        /\ pb_status # Returned(TRUE)
        /\ pb_status.kind # "running" =>
              /\ ~MosaicRan
              /\ LoopEntered =>
                    IF AllBlocksOk
                    THEN /\ pb_status = Raised("NotImplementedError")
                         /\ Len(BlockRuns) = Len(ids_range)
                    ELSE pb_status = Returned(FALSE)

C20_Witness ==
    /\ WholeTile
    /\ pb_status = Raised("NotImplementedError")
    /\ Len(BlockRuns) = TotalIds512 + 1
    /\ SomeBlockUpload

InProcessBlocks == pc \in {"process_blocks", "process_blocks_loop", "process_blocks_end"}
IsRmBlocks(e) == e.ev = "rmtree" /\ e.tag = "blocks"

\* what a step appends to the log
Added == SubSeq(log', Len(log) + 1, Len(log'))
Attempted == \E j \in 1..Len(Added) : IsBlockRun(Added[j])

\* a step of process_blocks that attempts a block ends with the deletion of
\* out_dir/blocks when clean is true, and the other steps leave it deleted;
\* when clean is false no step deletes it
C21_Step ==
    InProcessBlocks =>
        IF args.clean
        THEN IF Attempted
             THEN ~blocks_dir' /\ IsRmBlocks(log'[Len(log')])
             ELSE blocks_dir' = blocks_dir
        ELSE /\ blocks_dir => blocks_dir'
             /\ \A j \in 1..Len(Added) : ~IsRmBlocks(Added[j])

\* C21: with clean true, out_dir/blocks is deleted after every block attempt
\* of process_blocks, before the next attempt and before process_blocks ends;
\* with clean false no step of process_blocks deletes it.
C21_BlocksDeleted == [][C21_Step]_vars

C21_Witness ==
    /\ driver = "process_blocks"
    /\ args.clean
    /\ pb_status = Returned(FALSE)
    /\ Len(BlockRuns) = 2
    /\ BlockRuns[1].tag = "block" /\ BlockRuns[1].ret = 1
    /\ BlockRuns[2].tag = "exception"
    /\ ~blocks_dir

BlockUploadDriver ==
    \/ driver \in {"process_blocks", "generate_ewoc_block"}
    \/ (driver = "run_classif" /\ ~args.postprocess)

IsFeatureUpload(e) == e.ev \in {"upload", "upload_error"} /\ e.tag = "block_features"
IsDownload(e) == e.ev = "download"

\* the engine returned 0 for the block of log entry j, in the run before it
AfterSuccessOfBlock(j) ==
    \E d \in 1..4 :
        /\ j - d >= 1
        /\ log[j - d].ev = "run_tile" /\ log[j - d].tag = "block" /\ log[j - d].ret = 0
        /\ log[j - d].blk = log[j].blk
        /\ \A k \in (j - d + 1)..(j - 1) : log[k].ev = "upload"

\* the upload of the features directory needs a successful block, upload
\* enabled and a configuration that does not reuse features
FeatureUploadGuarded ==
    \A j \in 1..Len(log) :
        IsFeatureUpload(log[j]) =>
            /\ AfterSuccessOfBlock(j)
            /\ args.upload_block
            /\ ~cfg.empty /\ ~cfg.parameters.use_existing_features

\* nothing that download_features fetched is in a features directory that
\* is uploaded
ReusedNeverUploaded ==
    (\E i \in 1..Len(log) : IsDownload(log[i])) =>
        \A j \in 1..Len(log) : ~IsFeatureUpload(log[j])

\* C22: the features directory is uploaded only for a successful block with
\* upload enabled and a configuration whose use_existing_features is false,
\* and features downloaded from the product store are never uploaded again.
C22_FeatureUpload ==
    BlockUploadDriver => (FeatureUploadGuarded /\ ReusedNeverUploaded)

MosaicDriver == PMDriver \/ GPDriver

IsRewrite(e) == e.ev = "rewrite"
IsCogsUpload(e) == e.ev \in {"upload", "upload_error"} /\ e.tag = "cogs"
IsNotify(e) == e.ev = "notify"

Rewritten == {log[j].blk : j \in {i \in 1..Len(log) : IsRewrite(log[i])}}
Notified == {log[j].blk : j \in {i \in 1..Len(log) : IsNotify(log[i])}}

\* the driver ended normally and was asked to notify
MosaicCompleted ==
    \/ driver = "postprocess_mosaic" /\ outcome = ReturnedNone
    \/ driver = "run_classif" /\ args.postprocess /\ pm_status = ReturnedNone
    \/ GPDriver /\ outcome = ReturnedNone /\ args.upload_prd /\ args.notify_vdm

C24_DownloadTwice ==
    (DownloadDriver /\ Len(calls) >= 2) =>
        /\ calls[2].res.val = calls[1].res.val
        /\ calls[2].res.downloaded \cap calls[1].res.downloaded = {}

\* the driver has built its configuration from the collections
Recomputed ==
    \/ /\ driver = "generate_ewoc_block"
       /\ pc # "generate_ewoc_block"
       /\ ~use_existing_features
    \/ /\ driver = "run_classif"
       /\ pc # "run_classif"
       /\ ~args.use_existing_features

ExpectedInputs ==
    {"OPTICAL", "DEM", "METEO"}
        \cup (IF CollectionDegraded(args.sar_csv, "SAR") THEN {} ELSE {"SAR"})
        \cup (IF CollectionDegraded(args.tir_csv, "TIR") THEN {} ELSE {"TIR"})

\* C25: when generate_ewoc_block (or run_classif) builds its configuration
\* from raw data, the inputs hold OPTICAL, DEM and METEO, SAR exactly when the
\* SAR collection was not found degraded, and TIR exactly when the TIR
\* collection was not found degraded.
C25_InputPermutations ==
    (Recomputed /\ ~cfg.empty) => cfg.inputs = ExpectedInputs

C25_Witness ==
    /\ driver = "generate_ewoc_block"
    /\ Recomputed
    /\ ~cfg.empty
    /\ cfg.inputs = {"OPTICAL", "TIR", "DEM", "METEO"}

\* the call can build a configuration at all
Buildable ==
    /\ ~Unsupported(args.ewoc_detector, args.ewoc_season)
    /\ driver = "run_classif" => (args.has_block_ids /\ args.block_ids # <<>>)

Prepared ==
    \/ driver = "generate_ewoc_block" /\ pc # "generate_ewoc_block"
    \/ driver = "run_classif" /\ pc # "run_classif"

Active(i) == invocations[i].pc \in {"prepared", "running", "cleaning"}

DistinctDirs ==
    (Active(1) /\ Active(2)) => invocations[1].dir # invocations[2].dir

\* the config file of an invocation is there until its engine has returned,
\* and what the engine left in the current directory is there while it runs
FilesInUseKept ==
    \A i \in 1..2 :
        /\ invocations[i].pc \in {"prepared", "running"} =>
              File(invocations[i].dir, i) \in disk.files
        /\ invocations[i].pc = "running" => File(Cwd, i) \in disk.files

\* C27: two invocations of a driver for the same tile and production id that
\* are at work at the same time have different working directories, and the
\* cleaning of one deletes no file the other is using.
C27_DistinctWorkdirs == Concurrent => (DistinctDirs /\ FilesInUseKept)

MetaDriver == driver = "update_metajsons"

\* the production id without its last two tokens
OwnerId(production_id) == join(SubSeq(production_id, 1, Len(production_id) - 2))

\* an href under the output directory has the storage root in its place,
\* any other href is as it was
HrefRewritten(before, after, out, root) ==
    IF StartsWith(before, Str(out))
    THEN after = root \o SubSeq(before, Len(Str(out)) + 1, Len(before))
    ELSE after = before

DataRewritten(before, after, out, production_id) ==
    /\ Len(after.links) = Len(before.links)
    /\ \A k \in 1..Len(before.links) :
          /\ after.links[k].rel = before.links[k].rel
          /\ IF before.links[k].rel = "self"
             THEN HrefRewritten(before.links[k].href, after.links[k].href,
                                out, root_s3(production_id))
             ELSE after.links[k] = before.links[k]
    /\ Len(after.assets) = Len(before.assets)
    /\ \A k \in 1..Len(before.assets) :
          HrefRewritten(before.assets[k], after.assets[k], out, root_s3(production_id))
    /\ after.public = (IF before.public = "false" THEN "true" ELSE before.public)
    /\ after.users = (IF before.users = <<Seg("0000")>>
                      THEN <<OwnerId(production_id)>> ELSE before.users)
    /\ ("0000" \notin {before.tile_collection_id[k] :
                         k \in 1..Len(before.tile_collection_id)}
          => after.tile_collection_id = before.tile_collection_id)

MetaMatching(tree) == {i \in 1..Len(tree) : fnmatch(tree[i].path.name)}

\* the first call returns the matching files, has rewritten them and no other
MetaRewritten ==
    LET res == calls[1].res
        tree == args.tree
    IN /\ res.kind = "return"
       /\ {res.val[k] : k \in 1..Len(res.val)} = {tree[i].path : i \in MetaMatching(tree)}
       /\ Len(res.val) = Cardinality(MetaMatching(tree))
       /\ \A i \in 1..Len(tree) :
             /\ res.tree[i].path = tree[i].path
             /\ IF i \in MetaMatching(tree)
                THEN DataRewritten(tree[i].data, res.tree[i].data,
                                   args.out_dir_folder, args.production_id)
                ELSE res.tree[i] = tree[i]

\* the second call leaves the files as the first call left them
MetaIdempotent ==
    /\ calls[2].res.kind = "return"
    /\ calls[2].res.tree = calls[1].res.tree
    /\ calls[2].res.val = calls[1].res.val

\* C28: update_metajsons rewrites and returns exactly the files matching
\* *metadata_*.json: the output directory at the head of the self link and of
\* every asset href becomes the storage root, public "false" becomes "true",
\* users ["0000"] becomes the owner id (the production id without its last two
\* tokens), a field without the placeholder stays as it is, and a second call
\* changes nothing.
C28_UpdateMetajsons ==
    MetaDriver =>
        /\ Len(calls) >= 1 => MetaRewritten
        /\ Len(calls) >= 2 => MetaIdempotent

\* run_classif resolved the feature reuse over its block list and wrote a configuration
ReuseResolved ==
    /\ driver = "run_classif"
    /\ pc # "run_classif"
    /\ args.use_existing_features
    /\ args.has_block_ids
    /\ ~cfg.empty

\* the feature artifacts of a block that the resolver found in the store
FoundFor(block) ==
    {log[j].tag : j \in {k \in 1..Len(log) : IsDownload(log[k]) /\ log[k].blk = block}}

FeaturesExistFor(block) == Wanted \subseteq FoundFor(block)

RequestedBlocks == {args.block_ids[k] : k \in 1..Len(args.block_ids)}

\* C29: run_classif with feature reuse and a list of blocks writes
\* use_existing_features true only when the feature artifacts exist for every
\* requested block, and false when they are missing for one of them.
C29_ReuseEveryBlock ==
    ReuseResolved =>
        (cfg.parameters.use_existing_features <=> \A b \in RequestedBlocks : FeaturesExistFor(b))

\* a driver wrote its configuration and called the engine with it
EngineGotConfig ==
    /\ driver \in {"run_classif", "generate_ewoc_block", "generate_ewoc_products"}
    /\ ~cfg.empty
    /\ \E j \in 1..Len(log) : log[j].ev = "run_tile"

\* C30: a configuration handed to the engine with use_existing_features
\* false has OPTICAL, DEM and METEO among its inputs, and one without inputs
\* has use_existing_features true.
C30_InputsOrReuse ==
    EngineGotConfig =>
        /\ ~cfg.parameters.use_existing_features =>
              {"OPTICAL", "DEM", "METEO"} \subseteq cfg.inputs
        /\ cfg.inputs = {} => cfg.parameters.use_existing_features

====
